---- MODULE Spec2Model ----
(***************************************************************************)
(* Processing orchestration core of the rembg GUI: the job state           *)
(* (gui/main_window.py ProcessingState), the image processor and its own   *)
(* state (core/processor.py), the session manager (core/session_manager.py)*)
(* the video handler (core/video_handler.py) and the worker thread of      *)
(* MainWindow (gui/main_window.py).                                        *)
(*                                                                         *)
(* Three specifications share the variables:                               *)
(*   SpecPS  the job state object alone, called by concurrent threads,     *)
(*           with its lock and every statement of a method a step;         *)
(*   SpecIP  the image processor driven by a client thread, with a second  *)
(*           thread calling ImageProcessor.stop_processing and a third     *)
(*           calling SessionManager.destroy_session / create_session;      *)
(*   Spec    the application: the UI thread's handlers (Process, Stop,     *)
(*           window close) and the worker threads they start.              *)
(***************************************************************************)
EXTENDS Integers, Sequences, FiniteSets, TLC

VARIABLES
    ps,         \* MainWindow.processing_state: [processing, should_stop]
    psLock,     \* ProcessingState._lock: 0 when free, else the holder (SpecPS)
    cl,         \* the threads calling the job state's methods (SpecPS)
    lastMut,    \* history: the last completed start ("start") or finish ("finish")
    winners,    \* history: start_processing calls that returned True since the last finish
    ips,        \* ImageProcessor._state: [processing, should_stop]
    sm,         \* SessionManager: [session, model, use_gpu]
    smLock,     \* SessionManager._lock: 0 when free, else the holder (SpecSM)
    scl,        \* the threads calling the session manager's methods (SpecSM)
    smTag,      \* history: the handle that was live when each field was written, and
                \* the model m if the last call to return was a
                \* recreate_session_if_needed(m, True) that returned True
    nextHandle, \* the handle the next successful new_session returns
    w,          \* the worker threads: position and locals
    fs,         \* the filesystem: output files, frame directories
    env,        \* module flags and the UI side of the application
    hist,       \* history of the run, read by the properties only
    vf,         \* the frames of one video on their way through the stages (SpecVF)
    xr,         \* one extra_params text and two runs of the engine step (SpecXP)
    rd          \* one call of safe_remove_directory (SpecRD)

psVars == <<ps, psLock, cl, lastMut, winners>>
ipVars == <<ips, sm, nextHandle, w, fs, env, hist>>
smVars == <<smLock, scl, smTag>>
vars == <<ps, psLock, cl, lastMut, winners, ips, sm, smLock, scl, smTag, nextHandle, w, fs,
          env, hist, vf, xr, rd>>

(***************************************************************************)
(* Bounds of the model.                                                    *)
(***************************************************************************)
MaxCallers == 2
MaxJobs == 2
MaxItems == 2
MaxSessions == 2
MaxFrames == 4

Callers == 1..MaxCallers
Threads == 1..MaxJobs
Items == 1..MaxItems
Models == {"u2net", "isnet"}

(***************************************************************************)
(* gui/main_window.py ProcessingState: the bodies of its methods, each     *)
(* executed under self._lock.                                              *)
(***************************************************************************)
PSInit == [processing |-> FALSE, should_stop |-> FALSE]

\* start_processing with the running test dropped: every call starts a job.
PS_start_processing_NoTest(s) ==
    [ret |-> TRUE, st |-> [processing |-> TRUE, should_stop |-> FALSE]]

\* start_processing (lines 81-88): the result and the state it leaves.
PS_start_processing(s) ==
    IF s.processing
    THEN [ret |-> FALSE, st |-> s]
    ELSE [ret |-> TRUE, st |-> [processing |-> TRUE, should_stop |-> FALSE]]

\* stop_processing (lines 90-93).
PS_stop_processing(s) == [s EXCEPT !.should_stop = TRUE]

\* A finish_processing that leaves the state as it is.
PS_finish_processing_Forget(s) == s

\* finish_processing (lines 95-99).
PS_finish_processing(s) == [processing |-> FALSE, should_stop |-> FALSE]

\* is_processing (lines 101-104), should_stop (lines 106-109).
PS_is_processing(s) == s.processing
PS_should_stop(s) == s.should_stop

(***************************************************************************)
(* SpecPS: the same methods statement by statement, with the lock.         *)
(* A caller is at "idle", "acquire" (waiting for the lock), "s1".."s3"     *)
(* (the statements of the with block), "release" or "returned".            *)
(***************************************************************************)
PSOps == {"start", "stop", "finish", "is_processing", "should_stop"}

CallerInit ==
    [pc |-> "idle", op |-> "none", ret |-> "none",
     pre |-> PSInit, post |-> PSInit, after |-> "init"]

Bool2Str(b) == IF b THEN "true" ELSE "false"

\* A lock that never excludes anybody.
LockFreeAlways(l) == TRUE

\* threading.Lock: `with self._lock` is entered only while nobody holds it.
LockFree(l) == l = 0

\* A thread calls one of the methods.
PSCall(c, o) ==
    /\ cl[c].pc \in {"idle", "returned"}
    /\ cl' = [cl EXCEPT ![c] = [CallerInit EXCEPT !.pc = "acquire", !.op = o]]
    /\ UNCHANGED <<ps, psLock, lastMut, winners>>
    /\ UNCHANGED <<xr, rd, vf, ipVars, smVars>>

\* `with self._lock:` entered. pre and after record what the call found.
PSAcquire(c) ==
    /\ cl[c].pc = "acquire"
    /\ LockFree(psLock)
    /\ psLock' = c
    /\ cl' = [cl EXCEPT ![c].pc = "s1", ![c].pre = ps, ![c].after = lastMut]
    /\ UNCHANGED <<ps, lastMut, winners>>
    /\ UNCHANGED <<xr, rd, vf, ipVars, smVars>>

\* start_processing, line 84-85: `if self._processing: return False`.
PSStartTest(c) ==
    /\ cl[c].pc = "s1" /\ cl[c].op = "start"
    /\ cl' = [cl EXCEPT ![c].pc = IF ps.processing THEN "release" ELSE "s2",
                        ![c].ret = IF ps.processing THEN "false" ELSE "none"]
    /\ UNCHANGED <<ps, psLock, lastMut, winners>>
    /\ UNCHANGED <<xr, rd, vf, ipVars, smVars>>

\* start_processing, line 86: `self._processing = True`.
PSStartSet1(c) ==
    /\ cl[c].pc = "s2" /\ cl[c].op = "start"
    /\ ps' = [ps EXCEPT !.processing = TRUE]
    /\ cl' = [cl EXCEPT ![c].pc = "s3"]
    /\ UNCHANGED <<psLock, lastMut, winners>>
    /\ UNCHANGED <<xr, rd, vf, ipVars, smVars>>

\* A start that leaves the stop flag as it finds it.
PS_StartStopFlag_Keep(s) == s.should_stop

\* start_processing, line 87: the value assigned to _should_stop.
PS_StartStopFlag(s) == FALSE

\* start_processing, lines 87-88: `self._should_stop = False; return True`.
PSStartSet2(c) ==
    /\ cl[c].pc = "s3" /\ cl[c].op = "start"
    /\ ps' = [ps EXCEPT !.should_stop = PS_StartStopFlag(ps)]
    /\ cl' = [cl EXCEPT ![c].pc = "release", ![c].ret = "true"]
    /\ UNCHANGED <<psLock, lastMut, winners>>
    /\ UNCHANGED <<xr, rd, vf, ipVars, smVars>>

\* stop_processing, line 93.
PSStopSet(c) ==
    /\ cl[c].pc = "s1" /\ cl[c].op = "stop"
    /\ ps' = [ps EXCEPT !.should_stop = TRUE]
    /\ cl' = [cl EXCEPT ![c].pc = "release"]
    /\ UNCHANGED <<psLock, lastMut, winners>>
    /\ UNCHANGED <<xr, rd, vf, ipVars, smVars>>

\* finish_processing, line 98: `self._processing = False`.
PSFinishSet1(c) ==
    /\ cl[c].pc = "s1" /\ cl[c].op = "finish"
    /\ ps' = [ps EXCEPT !.processing = FALSE]
    /\ cl' = [cl EXCEPT ![c].pc = "s2"]
    /\ UNCHANGED <<psLock, lastMut, winners>>
    /\ UNCHANGED <<xr, rd, vf, ipVars, smVars>>

\* finish_processing, line 99: `self._should_stop = False`.
PSFinishSet2(c) ==
    /\ cl[c].pc = "s2" /\ cl[c].op = "finish"
    /\ ps' = [ps EXCEPT !.should_stop = FALSE]
    /\ cl' = [cl EXCEPT ![c].pc = "release"]
    /\ UNCHANGED <<psLock, lastMut, winners>>
    /\ UNCHANGED <<xr, rd, vf, ipVars, smVars>>

\* is_processing line 104, should_stop line 109: the read under the lock.
PSRead(c) ==
    /\ cl[c].pc = "s1" /\ cl[c].op \in {"is_processing", "should_stop"}
    /\ cl' = [cl EXCEPT ![c].pc = "release",
                        ![c].ret = Bool2Str(IF cl[c].op = "is_processing"
                                            THEN ps.processing ELSE ps.should_stop)]
    /\ UNCHANGED <<ps, psLock, lastMut, winners>>
    /\ UNCHANGED <<xr, rd, vf, ipVars, smVars>>

\* The with block is left and the method returns.
PSRelease(c) ==
    /\ cl[c].pc = "release"
    /\ psLock' = IF psLock = c THEN 0 ELSE psLock
    /\ cl' = [cl EXCEPT ![c].pc = "returned", ![c].post = ps]
    /\ lastMut' = CASE cl[c].op = "start" /\ cl[c].ret = "true" -> "start"
                    [] cl[c].op = "finish" -> "finish"
                    [] OTHER -> lastMut
    /\ winners' = CASE cl[c].op = "start" /\ cl[c].ret = "true" ->
                          IF winners < 2 THEN winners + 1 ELSE winners
                    [] cl[c].op = "finish" -> 0
                    [] OTHER -> winners
    /\ UNCHANGED ps
    /\ UNCHANGED <<xr, rd, vf, ipVars, smVars>>

(***************************************************************************)
(* core/processor.py ProcessingState (the image processor's own state).    *)
(***************************************************************************)
\* set_processing (lines 39-44).
IPS_set_processing(s, processing) ==
    [processing |-> processing,
     should_stop |-> IF processing THEN s.should_stop ELSE FALSE]

\* is_processing (lines 46-49).
IPS_is_processing(s) == s.processing /\ ~s.should_stop

\* stop_processing (lines 51-54).
IPS_stop_processing(s) == [s EXCEPT !.should_stop = TRUE]

\* should_stop (lines 56-59).
IPS_should_stop(s) == s.should_stop

(***************************************************************************)
(* core/session_manager.py SessionManager. A handle is a positive number,  *)
(* 0 is None. Each method runs under self._lock and is one step here.      *)
(***************************************************************************)
SMInit == [session |-> 0, model |-> "none", use_gpu |-> FALSE]

\* _get_providers (lines 116-130) with SETTINGS_AVAILABLE: the GPU list or the CPU list.
SM_get_providers(use_gpu) == IF use_gpu THEN "gpu" ELSE "cpu"

\* _create_session_internal (lines 48-114). ok1 and ok2 say whether new_session
\* succeeds on the first attempt and on the CPU retry, h is the handle it returns,
\* gpuSession is _is_gpu_session's answer for the GPU provider list.
\* Gives the result, the state left and the provider lists new_session was called with.
\* (The memory probes of lines 61 and 97 return here; SpecSM follows the
\* function statement by statement, with the probes free to raise.)
SM_create_session_internal(s, model, use_gpu, ok1, ok2, h, gpuSession) ==
    IF ok1
    THEN [ret |-> TRUE,
          st |-> [session |-> h, model |-> model,
                  use_gpu |-> use_gpu /\ SM_get_providers(use_gpu) = "gpu" /\ gpuSession],
          calls |-> <<SM_get_providers(use_gpu)>>]
    ELSE IF use_gpu
         THEN IF ok2
              THEN [ret |-> TRUE,
                    st |-> [session |-> h, model |-> model, use_gpu |-> FALSE],
                    calls |-> <<SM_get_providers(use_gpu), SM_get_providers(FALSE)>>]
              ELSE [ret |-> FALSE, st |-> s,
                    calls |-> <<SM_get_providers(use_gpu), SM_get_providers(FALSE)>>]
         ELSE [ret |-> FALSE, st |-> s, calls |-> <<SM_get_providers(use_gpu)>>]

\* get_session (lines 155-158).
SM_get_session(s) == s.session

\* A destroy_session that leaves the session as it is.
SM_destroy_session_Keep(s) == s

\* destroy_session (lines 160-180).
SM_destroy_session(s) == IF s.session # 0 THEN SMInit ELSE s

\* is_session_ready (lines 182-185).
SM_is_session_ready(s) == s.session # 0

(***************************************************************************)
(* SessionManager, statement by statement: threads call its methods, each  *)
(* method body runs under self._lock. A calling thread's record:           *)
(*   op, model, use_gpu   the method and its arguments                     *)
(*   cur      use_gpu of the running _create_session_internal invocation   *)
(*   pre      history: the fields as found when the lock was entered       *)
(*   calls    history: the new_session calls of this method call: provider *)
(*            list, outcome, and how many attempts had raised before       *)
(*   raises   history: the attempts of this method call that raised        *)
(*   obs      what the method has read so far (with the history tags)      *)
(***************************************************************************)
SmOps == {"create", "recreate", "destroy", "get_session", "is_session_ready",
          "get_session_info"}

ConfigureOps == {"create", "recreate"}

SCallerInit ==
    [pc |-> "idle", op |-> "none", model |-> "none", use_gpu |-> FALSE, cur |-> FALSE,
     ret |-> "none", pre |-> SMInit, calls |-> <<>>, raises |-> 0,
     obs |-> [session |-> 0, model |-> "none", use_gpu |-> FALSE, ready |-> FALSE,
              tm |-> 0, tg |-> 0]]

\* The statements executed with the lock held.
SmInside == {"rc_test", "rc_clear", "ci_avail", "ci_probe1", "ci_new", "ci_model",
             "ci_gpu", "ci_probe2", "ds_test", "ds_session", "ds_model", "ds_gpu",
             "gs_read", "ir_read", "gi_model", "gi_gpu", "gi_ready", "release"}

\* A lock that excludes nobody.
SM_LockFree_Always(l) == TRUE

\* threading.Lock (line 38): `with self._lock` is entered only while nobody holds it.
SM_LockFree(l) == l = 0

\* A retry that asks for the GPU again.
SM_FallbackUseGpu_Same(use_gpu) == use_gpu

\* Lines 81 and 112: the retry is _create_session_internal(model_name, use_gpu=False).
SM_FallbackUseGpu(use_gpu) == FALSE

\* Lines 201-203: recreate_session_if_needed goes on only if there is no
\* session or the recorded model or GPU flag differs from the request.
SM_NeedsRecreate(s, model, use_gpu) ==
    s.session = 0 \/ s.model # model \/ s.use_gpu # use_gpu

\* An exception that is reported at once, whatever was asked for.
SM_OnRaise_NoRetry(r) ==
    [r EXCEPT !.ret = "false", !.pc = "release", !.raises = IF @ < 3 THEN @ + 1 ELSE @]

\* Lines 73-83 and 104-114: an exception in the attempt: a GPU attempt is
\* followed by the call of _create_session_internal for the CPU, whose result
\* is returned; a CPU attempt returns False.
SM_OnRaise(r) ==
    IF r.cur
    THEN [r EXCEPT !.cur = SM_FallbackUseGpu(r.cur), !.pc = "ci_avail",
                   !.raises = IF @ < 3 THEN @ + 1 ELSE @]
    ELSE [r EXCEPT !.ret = "false", !.pc = "release",
                   !.raises = IF @ < 3 THEN @ + 1 ELSE @]

\* A thread calls one of the methods.
SmCall(c) ==
    /\ scl[c].pc = "idle"
    /\ \E o \in SmOps :
          scl' = [scl EXCEPT ![c] = [SCallerInit EXCEPT !.pc = "acquire", !.op = o]]
    /\ UNCHANGED <<xr, rd, vf, psVars, ips, sm, smLock, smTag, nextHandle, w, fs, env, hist>>

\* `with self._lock:` entered (lines 45, 157, 162, 184, 189, 199). The
\* arguments of create_session and recreate_session_if_needed, a model and a
\* GPU wish, are first used inside; they are chosen here.
SmAcquire(c) ==
    /\ scl[c].pc = "acquire"
    /\ SM_LockFree(smLock)
    /\ smLock' = c
    /\ \E m \in (IF scl[c].op \in ConfigureOps THEN Models ELSE {"none"}) :
       \E g \in (IF scl[c].op \in ConfigureOps THEN BOOLEAN ELSE {FALSE}) :
          scl' = [scl EXCEPT ![c].pre = sm, ![c].model = m, ![c].use_gpu = g, ![c].cur = g,
                             ![c].pc = CASE scl[c].op = "create" -> "ci_avail"
                                         [] scl[c].op = "recreate" -> "rc_test"
                                         [] scl[c].op = "destroy" -> "ds_test"
                                         [] scl[c].op = "get_session" -> "gs_read"
                                         [] scl[c].op = "is_session_ready" -> "ir_read"
                                         [] OTHER -> "gi_model"]
    /\ UNCHANGED <<xr, rd, vf, psVars, ips, sm, smTag, nextHandle, w, fs, env, hist>>

\* recreate_session_if_needed, lines 201-214: the test, then `self._session =
\* None` if there is a session (the model and the GPU flag stay as they are),
\* then _create_session_internal; `return True` if nothing differs.
SmRecreate(c) ==
    /\ scl[c].pc \in {"rc_test", "rc_clear"}
    /\ IF scl[c].pc = "rc_test"
       THEN /\ scl' = [scl EXCEPT ![c] =
                         IF SM_NeedsRecreate(sm, scl[c].model, scl[c].use_gpu)
                         THEN [scl[c] EXCEPT !.pc = IF sm.session # 0 THEN "rc_clear"
                                                    ELSE "ci_avail"]
                         ELSE [scl[c] EXCEPT !.ret = "true", !.pc = "release"]]
            /\ UNCHANGED sm
       ELSE /\ sm' = [sm EXCEPT !.session = 0]
            /\ scl' = [scl EXCEPT ![c].pc = "ci_avail"]
    /\ UNCHANGED <<xr, rd, vf, psVars, ips, smLock, smTag, nextHandle, w, fs, env, hist>>

\* _create_session_internal, lines 50-53: without rembg, False.
SmAvail(c) ==
    /\ scl[c].pc = "ci_avail"
    /\ scl' = [scl EXCEPT ![c] = IF env.avail THEN [scl[c] EXCEPT !.pc = "ci_probe1"]
                                 ELSE [scl[c] EXCEPT !.ret = "false", !.pc = "release"]]
    /\ UNCHANGED <<xr, rd, vf, psVars, ips, sm, smLock, smTag, nextHandle, w, fs, env, hist>>

\* Lines 60-63: get_memory_usage() (utils/system_utils.py lines 52-60) asks
\* psutil and catches nothing: it returns, or its exception is that of the attempt.
SmProbe1(c) ==
    /\ scl[c].pc = "ci_probe1"
    /\ \E ok \in BOOLEAN :
          scl' = [scl EXCEPT ![c] = IF ok THEN [scl[c] EXCEPT !.pc = "ci_new"]
                                    ELSE SM_OnRaise(scl[c])]
    /\ UNCHANGED <<xr, rd, vf, psVars, ips, sm, smLock, smTag, nextHandle, w, fs, env, hist>>

\* Lines 66-83: the provider list, then `self._session = new_session(...)`:
\* a new handle, or an exception with the field untouched.
SmNewSession(c) ==
    /\ scl[c].pc = "ci_new"
    /\ \E ok \in (IF nextHandle <= MaxSessions THEN BOOLEAN ELSE {FALSE}) :
          LET called == [scl[c] EXCEPT !.calls =
                            Append(@, [prov |-> SM_get_providers(scl[c].cur), ok |-> ok,
                                       after |-> scl[c].raises])]
          IN IF ok
             THEN /\ sm' = [sm EXCEPT !.session = nextHandle]
                  /\ nextHandle' = nextHandle + 1
                  /\ scl' = [scl EXCEPT ![c] = [called EXCEPT !.pc = "ci_model"]]
             ELSE /\ scl' = [scl EXCEPT ![c] = SM_OnRaise(called)]
                  /\ UNCHANGED <<sm, nextHandle>>
    /\ UNCHANGED <<xr, rd, vf, psVars, ips, smLock, smTag, w, fs, env, hist>>

\* Line 87: self._current_model = model_name.
SmSetModel(c) ==
    /\ scl[c].pc = "ci_model"
    /\ sm' = [sm EXCEPT !.model = scl[c].model]
    /\ smTag' = [smTag EXCEPT !.model = sm.session]
    /\ scl' = [scl EXCEPT ![c].pc = "ci_gpu"]
    /\ UNCHANGED <<xr, rd, vf, psVars, ips, smLock, nextHandle, w, fs, env, hist>>

\* Line 88: self._use_gpu = use_gpu and self._is_gpu_session(providers), where
\* _is_gpu_session (lines 132-153) says whether onnxruntime offers the GPU provider.
SmSetGpu(c) ==
    /\ scl[c].pc = "ci_gpu"
    /\ \E gpuSession \in (IF scl[c].cur THEN BOOLEAN ELSE {FALSE}) :
          sm' = [sm EXCEPT !.use_gpu = scl[c].cur
                                       /\ SM_get_providers(scl[c].cur) = "gpu"
                                       /\ gpuSession]
    /\ smTag' = [smTag EXCEPT !.use_gpu = sm.session]
    /\ scl' = [scl EXCEPT ![c].pc = "ci_probe2"]
    /\ UNCHANGED <<xr, rd, vf, psVars, ips, smLock, nextHandle, w, fs, env, hist>>

\* Lines 96-102: get_memory_usage() again, inside the same `try`, then
\* `return True`. Its exception is handled like that of new_session, with the
\* session already assigned.
SmProbe2(c) ==
    /\ scl[c].pc = "ci_probe2"
    /\ \E ok \in BOOLEAN :
          scl' = [scl EXCEPT ![c] = IF ok THEN [scl[c] EXCEPT !.ret = "true", !.pc = "release"]
                                    ELSE SM_OnRaise(scl[c])]
    /\ UNCHANGED <<xr, rd, vf, psVars, ips, sm, smLock, smTag, nextHandle, w, fs, env, hist>>

\* A destroy_session that forgets the model and the flag but keeps the handle.
SM_DestroyWrite_KeepHandle(s, pc) ==
    CASE pc = "ds_model" -> [s EXCEPT !.model = "none"]
      [] pc = "ds_gpu" -> [s EXCEPT !.use_gpu = FALSE]
      [] OTHER -> s

\* destroy_session, lines 171-173: the three assignments.
SM_DestroyWrite(s, pc) ==
    CASE pc = "ds_session" -> [s EXCEPT !.session = 0]
      [] pc = "ds_model" -> [s EXCEPT !.model = "none"]
      [] pc = "ds_gpu" -> [s EXCEPT !.use_gpu = FALSE]
      [] OTHER -> s

\* destroy_session, lines 163-173: if there is a session, the three fields are
\* reset one after the other (nothing in the `try` can raise).
SmDestroy(c) ==
    /\ scl[c].pc \in {"ds_test", "ds_session", "ds_model", "ds_gpu"}
    /\ sm' = SM_DestroyWrite(sm, scl[c].pc)
    /\ smTag' = CASE scl[c].pc = "ds_model" -> [smTag EXCEPT !.model = sm.session]
                  [] scl[c].pc = "ds_gpu" -> [smTag EXCEPT !.use_gpu = sm.session]
                  [] OTHER -> smTag
    /\ scl' = [scl EXCEPT ![c].pc =
                  CASE scl[c].pc = "ds_test" -> IF sm.session # 0 THEN "ds_session"
                                                ELSE "release"
                    [] scl[c].pc = "ds_session" -> "ds_model"
                    [] scl[c].pc = "ds_model" -> "ds_gpu"
                    [] OTHER -> "release"]
    /\ UNCHANGED <<xr, rd, vf, psVars, ips, smLock, nextHandle, w, fs, env, hist>>

\* get_session, line 158: return self._session.
SmGetSession(c) ==
    /\ scl[c].pc = "gs_read"
    /\ scl' = [scl EXCEPT ![c].obs.session = SM_get_session(sm), ![c].ret = "value",
                          ![c].pc = "release"]
    /\ UNCHANGED <<xr, rd, vf, psVars, ips, sm, smLock, smTag, nextHandle, w, fs, env, hist>>

\* is_session_ready, line 185: return self._session is not None.
SmIsReady(c) ==
    /\ scl[c].pc = "ir_read"
    /\ scl' = [scl EXCEPT ![c].obs.ready = SM_is_session_ready(sm), ![c].ret = "value",
                          ![c].pc = "release"]
    /\ UNCHANGED <<xr, rd, vf, psVars, ips, sm, smLock, smTag, nextHandle, w, fs, env, hist>>

\* get_session_info, lines 190-195: the dictionary is built entry by entry:
\* the model, the GPU flag, then whether there is a session.
SmInfo(c) ==
    /\ scl[c].pc \in {"gi_model", "gi_gpu", "gi_ready"}
    /\ scl' = [scl EXCEPT ![c] =
                 CASE scl[c].pc = "gi_model" ->
                         [scl[c] EXCEPT !.obs.model = sm.model, !.obs.tm = smTag.model,
                                        !.pc = "gi_gpu"]
                   [] scl[c].pc = "gi_gpu" ->
                         [scl[c] EXCEPT !.obs.use_gpu = sm.use_gpu,
                                        !.obs.tg = smTag.use_gpu, !.pc = "gi_ready"]
                   [] OTHER ->
                         [scl[c] EXCEPT !.obs.ready = sm.session # 0,
                                        !.obs.session = sm.session,
                                        !.ret = "value", !.pc = "release"]]
    /\ UNCHANGED <<xr, rd, vf, psVars, ips, sm, smLock, smTag, nextHandle, w, fs, env, hist>>

\* The `with` block is left and the method returns.
SmRelease(c) ==
    /\ scl[c].pc = "release"
    /\ smLock' = IF smLock = c THEN 0 ELSE smLock
    /\ smTag' = [smTag EXCEPT !.last =
                    IF scl[c].op = "recreate" /\ scl[c].use_gpu /\ scl[c].ret = "true"
                    THEN scl[c].model ELSE "none"]
    /\ scl' = [scl EXCEPT ![c] = SCallerInit]
    /\ UNCHANGED <<xr, rd, vf, psVars, ips, sm, nextHandle, w, fs, env, hist>>

(***************************************************************************)
(* The worker threads. A thread is "unborn" until it is started; its       *)
(* locals are those of processing_thread, process_directory and            *)
(* process_single_image. Items are numbered in discovery order: the item   *)
(* of loop index i is i + 1, and a single image is item 1.                 *)
(*   res      the result of the current process_single_image call          *)
(*   pdret    "value" once process_directory has returned its dictionary   *)
(*            (total, successful, frames), "raised" if an exception left it *)
(*   att      history: how often process_directory handed each item to     *)
(*            process_single_image                                         *)
(*   itemRes  history: the result of process_single_image for each item    *)
(*   pre0     history: the output file as the current call found it        *)
(*   stopAt   history: the statement the call stood before when stop was   *)
(*            requested ("before": already requested at the call)          *)
(*   raisedAt history: the statement of the call that raised, if one did   *)
(*   opens    history: how often the call opened the output for writing    *)
(*   skip, srcN, fcount, saved   extract_video_frames: frame_skip, the     *)
(*            frames the source holds, frame_count, saved_count            *)
(*   rf, gf, cj, wj   reassemble_video_from_frames: frame_files and         *)
(*            greenscreen_files, the index of the compositing loop and of  *)
(*            the writing loop                                             *)
(***************************************************************************)
FileStates == {"absent", "old", "partial", "new"}

WInit ==
    [pc |-> "unborn", top |-> "none", mode |-> "none", cb |-> FALSE, pcb |-> FALSE,
     att |-> [k \in Items |-> 0],
     n |-> 0, i |-> 0, successful |-> 0, frames |-> <<>>, total |-> 0,
     res |-> "none", pdret |-> "none", dirOk |-> TRUE,
     itemRes |-> [k \in Items |-> "none"],
     pre0 |-> "absent", stopAt |-> "none", raisedAt |-> "none", opens |-> 0,
     skip |-> 1, srcN |-> 0, fcount |-> 0, saved |-> 0,
     rf |-> <<>>, gf |-> <<>>, cj |-> 0, wj |-> 0, raret |-> "none"]

ItemOf(t) == IF w[t].mode = "image" THEN 1 ELSE w[t].i + 1

\* Where the outputs of the job go: the output directory, or its
\* processed_frames subdirectory for a video (gui/main_window.py line 803).
OutDir(t) == IF w[t].mode = "video" THEN "proc" ELSE "out"

PsiPcs == {"psi_entry", "psi_check1", "psi_mem", "psi_read", "psi_check2", "psi_ready",
           "psi_remove", "psi_check3", "psi_mkdir", "psi_open", "psi_write", "psi_cb"}
PsiBeforeSave == {"psi_entry", "psi_check1", "psi_mem", "psi_read", "psi_check2",
                  "psi_ready", "psi_remove", "psi_check3"}

\* The items the batch loop has begun: those whose loop-head check has passed.
Begun(t) ==
    IF w[t].mode # "image" /\ w[t].pc \in ({"pd_before", "pd_after"} \cup PsiPcs)
    THEN w[t].i + 1 ELSE w[t].i

\* The filesystem: the files of the output directory (out), of its
\* processed_frames (proc) and greenscreen_frames (green) subdirectories, the
\* temporary frame directory of each job (tmp) and the output video.
FSInit ==
    [out |-> [k \in Items |-> "absent"],
     proc |-> [k \in Items |-> "absent"],
     green |-> {}, greenDir |-> FALSE,
     tmp |-> [t \in Threads |-> [exists |-> FALSE, frames |-> 0]],
     video |-> <<>>]

\* PROCESSING_AVAILABLE (core/processor.py line 12), CORE_AVAILABLE
\* (gui/main_window.py line 45), the UI thread's position and
\* MainWindow.temp_directories (the jobs whose directory is registered).
EnvInit == [avail |-> TRUE, core |-> TRUE, ui |-> "idle", registry |-> {}]

(***************************************************************************)
(* core/processor.py ImageProcessor.process_single_image (lines 70-198).   *)
(***************************************************************************)
\* The history fields of a call are kept for the client of SpecIP, whose calls
\* the properties of process_single_image and process_directory are about.
Observed(t) == w[t].top = "harness"

\* Whether the progress callback the caller passed can raise here. A client may
\* pass any callable. The application passes safe_update_progress
\* (gui/main_window.py lines 585-605), which catches only tk.TclError around
\* `self.root.after`: once the window is destroyed the call from the worker
\* thread may raise something else. For a directory or the frames of a video
\* it passes a wrapper that does nothing once the job state says stop
\* (lines 778-781, 807-809).
CallbackMayRaise(t) ==
    CASE w[t].top = "harness" -> TRUE
      [] w[t].mode = "image" -> env.ui = "closed"
      [] OTHER -> env.ui = "closed" /\ ~PS_should_stop(ps)

\* Whether the input of the current item can be read: a frame of a video is
\* there while the job's temporary directory is; of other inputs nothing is known.
InputReadable(t) ==
    w[t].mode = "video" => fs.tmp[t].exists /\ ItemOf(t) <= fs.tmp[t].frames

\* Where a finished call continues: in the batch loop, or in the caller of a
\* single-image call.
PsiCont(t) ==
    IF w[t].mode = "image"
    THEN (IF w[t].top = "harness" THEN "h_done" ELSE "img_done")
    ELSE "pd_after"

PsiRet(t, r) == [w[t] EXCEPT !.res = r, !.pc = PsiCont(t)]

\* The handlers inside the function: (IOError, PermissionError) around the read
\* (lines 114-117) and the save (lines 185-188), Exception around remove (152-155).
PSI_InnerCatches(where, kind) ==
    \/ where = "remove"
    \/ where \in {"read", "save"} /\ kind = "io"

\* A function without an outer handler.
PSI_OuterCatches_None(where) == FALSE

\* The outer try (line 85) with `except Exception` (lines 195-198) holds every
\* statement after the PROCESSING_AVAILABLE test.
PSI_OuterCatches(where) == TRUE

\* What the call returns when an exception is raised at `where`.
PsiOnRaise(where, kind) ==
    IF PSI_InnerCatches(where, kind) \/ PSI_OuterCatches(where) THEN "false" ELSE "raised"

PsiRaise(t, where, kind) ==
    [w[t] EXCEPT !.res = PsiOnRaise(where, kind), !.pc = PsiCont(t),
                 !.raisedAt = IF Observed(t) THEN where ELSE @]

\* The three checks with the one before saving missing.
PSI_StopObserved_NoSaveCheck(s, at) == at # "psi_check3" /\ IPS_should_stop(s)

\* `if self._state.should_stop(): return False` at lines 90, 123 and 169.
PSI_StopObserved(s, at) == IPS_should_stop(s)

\* Lines 80-87: the PROCESSING_AVAILABLE test.
PsiEntry(t) ==
    /\ w[t].pc = "psi_entry"
    /\ LET w0 == [w[t] EXCEPT !.res = "none", !.dirOk = TRUE]
           w1 == IF Observed(t)
                 THEN [w0 EXCEPT !.pre0 = fs[OutDir(t)][ItemOf(t)],
                                 !.stopAt = IF ips.should_stop THEN "before" ELSE "none",
                                 !.raisedAt = "none", !.opens = 0]
                 ELSE w0
       IN w' = [w EXCEPT ![t] =
                  IF env.avail THEN [w1 EXCEPT !.pc = "psi_check1"]
                  ELSE [w1 EXCEPT !.res = "false", !.pc = PsiCont(t)]]
    /\ UNCHANGED <<xr, rd, vf, psVars, smVars, ips, sm, nextHandle, fs, env, hist>>

PsiAfterCheck(at) ==
    CASE at = "psi_check1" -> "psi_mem"
      [] at = "psi_check2" -> "psi_ready"
      [] at = "psi_check3" -> "psi_mkdir"

\* Lines 89-91, 122-124, 168-170: the cancellation checks.
PsiCheck(t) ==
    /\ w[t].pc \in {"psi_check1", "psi_check2", "psi_check3"}
    /\ w' = [w EXCEPT ![t] =
               IF PSI_StopObserved(ips, w[t].pc) THEN PsiRet(t, "false")
               ELSE [w[t] EXCEPT !.pc = PsiAfterCheck(w[t].pc)]]
    /\ UNCHANGED <<xr, rd, vf, psVars, smVars, ips, sm, nextHandle, fs, env, hist>>

\* Lines 93-108: the memory precondition; the psutil probe may raise.
PsiMem(t) ==
    /\ w[t].pc = "psi_mem"
    /\ \E o \in {"ok", "insufficient", "raise"} :
          w' = [w EXCEPT ![t] =
                  CASE o = "ok" -> [w[t] EXCEPT !.pc = "psi_read"]
                    [] o = "insufficient" -> PsiRet(t, "false")
                    [] o = "raise" -> PsiRaise(t, "mem", "other")]
    /\ UNCHANGED <<xr, rd, vf, psVars, smVars, ips, sm, nextHandle, fs, env, hist>>

\* Lines 110-120: the input is read whole; the read may fail.
PsiRead(t) ==
    /\ w[t].pc = "psi_read"
    /\ \E o \in (IF InputReadable(t) THEN {"ok", "io", "other"} ELSE {"io"}) :
          w' = [w EXCEPT ![t] =
                  IF o = "ok" THEN [w[t] EXCEPT !.pc = "psi_check2"]
                  ELSE PsiRaise(t, "read", o)]
    /\ UNCHANGED <<xr, rd, vf, psVars, smVars, ips, sm, nextHandle, fs, env, hist>>

\* Lines 126-133: extra parameters parsed, then `is_session_ready()`.
PsiReady(t) ==
    /\ w[t].pc = "psi_ready"
    /\ w' = [w EXCEPT ![t] =
               IF SM_is_session_ready(sm) THEN [w[t] EXCEPT !.pc = "psi_remove"]
               ELSE PsiRet(t, "false")]
    /\ UNCHANGED <<xr, rd, vf, psVars, smVars, ips, sm, nextHandle, fs, env, hist>>

\* Lines 139-166: `remove(input_data, session=self.session_manager.get_session(), ...)`.
\* The handle is fetched here, not at the readiness test. The engine, or a
\* psutil probe around it, may raise.
PsiRemove(t) ==
    /\ w[t].pc = "psi_remove"
    /\ hist' = IF Observed(t) THEN [hist EXCEPT !.removes = @ \cup {SM_get_session(sm)}]
                ELSE hist
    /\ \E o \in {"ok", "engine", "probe"} :
          w' = [w EXCEPT ![t] =
                  CASE o = "ok" -> [w[t] EXCEPT !.pc = "psi_check3"]
                    [] o = "engine" -> PsiRaise(t, "remove", "other")
                    [] o = "probe" -> PsiRaise(t, "probe", "other")]
    /\ UNCHANGED <<xr, rd, vf, psVars, smVars, ips, sm, nextHandle, fs, env>>

\* Lines 174-177: the parent directory is created; ensure_directory_exists
\* reports a failure by its result, which is not read.
PsiMkdir(t) ==
    /\ w[t].pc = "psi_mkdir"
    /\ \E ok \in BOOLEAN : w' = [w EXCEPT ![t].pc = "psi_open", ![t].dirOk = ok]
    /\ UNCHANGED <<xr, rd, vf, psVars, smVars, ips, sm, nextHandle, fs, env, hist>>

\* Line 179: `open(output_path, 'wb')` creates or truncates the file, or fails.
PsiOpen(t) ==
    /\ w[t].pc = "psi_open"
    /\ \E o \in (IF w[t].dirOk THEN {"ok", "io"} ELSE {"io"}) :
          IF o = "ok"
          THEN /\ fs' = [fs EXCEPT ![OutDir(t)][ItemOf(t)] = "partial"]
               /\ w' = [w EXCEPT ![t].pc = "psi_write",
                                   ![t].opens = IF Observed(t) THEN @ + 1 ELSE @]
          ELSE /\ w' = [w EXCEPT ![t] = PsiRaise(t, "save", "io")]
               /\ UNCHANGED fs
    /\ UNCHANGED <<xr, rd, vf, psVars, smVars, ips, sm, nextHandle, env, hist>>

\* Line 180: `f.write(output_data)` and the close; the disk may fill up.
PsiWrite(t) ==
    /\ w[t].pc = "psi_write"
    /\ \E o \in {"ok", "io"} :
          IF o = "ok"
          THEN /\ fs' = [fs EXCEPT ![OutDir(t)][ItemOf(t)] = "new"]
               /\ w' = [w EXCEPT ![t].pc = "psi_cb"]
          ELSE /\ w' = [w EXCEPT ![t] = PsiRaise(t, "save", "io")]
               /\ UNCHANGED fs
    /\ UNCHANGED <<xr, rd, vf, psVars, smVars, ips, sm, nextHandle, env, hist>>

\* Lines 190-193: the caller's progress callback, if any, then `return True`.
PsiCallback(t) ==
    /\ w[t].pc = "psi_cb"
    /\ \E o \in (IF w[t].cb /\ CallbackMayRaise(t) THEN {"ok", "raise"} ELSE {"ok"}) :
          w' = [w EXCEPT ![t] =
                  IF o = "ok" THEN PsiRet(t, "true")
                  ELSE PsiRaise(t, "callback", "other")]
    /\ UNCHANGED <<xr, rd, vf, psVars, smVars, ips, sm, nextHandle, fs, env, hist>>

(***************************************************************************)
(* core/processor.py ImageProcessor.process_directory (lines 200-328).     *)
(***************************************************************************)
\* Where process_directory's caller continues with the returned dictionary.
PdCont(t) ==
    CASE w[t].top = "harness" -> "h_done"
      [] w[t].mode = "directory" -> "dir_done"
      [] OTHER -> "vid_pd_done"

\* Where an exception that leaves process_directory arrives: the function has
\* no handler of its own.
PdRaiseCont(t) == IF w[t].top = "harness" THEN "h_done" ELSE "w_except"

PdReturn(t, total, successful, frames) ==
    [w[t] EXCEPT !.pdret = "value", !.total = total, !.successful = successful,
                 !.frames = frames, !.pc = PdCont(t)]

PdRaise(t) == [w[t] EXCEPT !.pdret = "raised", !.pc = PdRaiseCont(t)]

\* What find_image_files(input_dir) can return (utils/file_utils.py lines 19-29):
\* the number of image files under the directory. For a video the directory is
\* the job's temporary one, and a directory that is gone lists as empty.
FoundFiles(t) ==
    IF w[t].mode = "video"
    THEN {IF fs.tmp[t].exists THEN fs.tmp[t].frames ELSE 0}
    ELSE 0..MaxItems

\* Lines 209-262: the files are listed and the output directory is created.
PdEntry(t) ==
    /\ w[t].pc = "pd_entry"
    /\ \E k \in FoundFiles(t), dirok \in BOOLEAN :
          w' = [w EXCEPT ![t] =
                  CASE k = 0 -> PdReturn(t, 0, 0, <<>>)
                    [] k > 0 /\ ~dirok -> PdReturn(t, k, 0, <<>>)
                    [] OTHER -> [w[t] EXCEPT !.n = k, !.i = 0, !.successful = 0,
                                             !.frames = <<>>, !.pc = "pd_loop",
                                             !.itemRes = [j \in Items |-> "none"],
                                             !.att = [j \in Items |-> 0]]]
    /\ hist' = IF Observed(t) THEN [hist EXCEPT !.out0 = fs[OutDir(t)]] ELSE hist
    /\ UNCHANGED <<xr, rd, vf, psVars, smVars, ips, sm, nextHandle, fs, env>>

\* A loop that never looks at the stop flag.
PD_ShouldBreak_Never(s) == FALSE

\* Lines 265-266: `if self._state.should_stop(): break`.
PD_ShouldBreak(s) == IPS_should_stop(s)

\* Lines 264-266: the head of the loop: the next item, or the end.
PdLoop(t) ==
    /\ w[t].pc = "pd_loop"
    /\ w' = [w EXCEPT ![t] =
               IF w[t].i >= w[t].n \/ PD_ShouldBreak(ips)
               THEN PdReturn(t, w[t].n, w[t].successful, w[t].frames)
               ELSE [w[t] EXCEPT !.pc = "pd_before"]]
    /\ UNCHANGED <<xr, rd, vf, psVars, smVars, ips, sm, nextHandle, fs, env, hist>>

\* Lines 281-286 (and 302-307, 314-319): the callback is called with five
\* arguments and, if that raises TypeError, again with the first three of them:
\* a callback of three parameters (that of the video job, gui/main_window.py
\* line 807) is served by the second call, one of five by the first. Either
\* way the callback runs once: it returns ("ok") or raises ("raise").
CallbackOutcomes(t) ==
    IF w[t].pcb /\ CallbackMayRaise(t) THEN {"ok", "raise"} ELSE {"ok"}

\* The exception leaves process_directory: the calls stand in no `try` but
\* the one for TypeError.
CallbackEscapes(o) == o = "raise"

\* History: the progress events delivered to the callback, as the arguments
\* of the five-argument call: which call, its first two arguments, the item
\* (the source path) and the destination passed (0 for None). Nothing is
\* delivered once a callback has raised.
LogEvent(t, kind, idx, dest, o) ==
    IF ~(Observed(t) /\ w[t].pcb) THEN hist
    ELSE [hist EXCEPT
            !.events = IF hist.cbRaised THEN @
                       ELSE Append(@, [kind |-> kind, idx |-> idx, total |-> w[t].n,
                                       item |-> ItemOf(t), dest |-> dest]),
            !.cbRaised = @ \/ o # "ok"]

\* Lines 268-294: the output path, the callback before the item, and the call
\* of process_single_image (without a callback of its own). A callback that
\* raises anything but TypeError ends process_directory with that exception.
\* (The output path of a file that rglob found under input_dir can be computed,
\* so the handler of lines 273-276 is not entered.)
PdBefore(t) ==
    /\ w[t].pc = "pd_before"
    /\ \E o \in CallbackOutcomes(t) :
          /\ w' = [w EXCEPT ![t] =
                     IF CallbackEscapes(o) THEN PdRaise(t)
                     ELSE [w[t] EXCEPT !.pc = "psi_entry", !.cb = FALSE,
                                       !.att[ItemOf(t)] =
                                           IF Observed(t) /\ @ < 2 THEN @ + 1 ELSE @]]
          /\ hist' = LogEvent(t, "before", w[t].i, 0, o)
    /\ UNCHANGED <<xr, rd, vf, psVars, smVars, ips, sm, nextHandle, fs, env>>

\* The bookkeeping with the successes not counted.
PD_Count_Lost(successful, frames, item, ok) == [successful |-> successful, frames |-> frames]

\* The bookkeeping with the newest output path put first.
PD_Count_Prepend(successful, frames, item, ok) ==
    IF ok THEN [successful |-> successful + 1, frames |-> <<item>> \o frames]
    ELSE [successful |-> successful, frames |-> frames]

\* Lines 295-298: a success is counted and its output path appended.
PD_Count(successful, frames, item, ok) ==
    IF ok THEN [successful |-> successful + 1, frames |-> Append(frames, item)]
    ELSE [successful |-> successful, frames |-> frames]

\* A loop that a failed item ends.
PD_NextIndex_EndOnFailure(i, n, ok) == IF ok THEN i + 1 ELSE n

\* Lines 264, 308-319: after an item, failed or not, the loop goes on with
\* the next index.
PD_NextIndex(i, n, ok) == i + 1

\* An index that runs ahead of the items.
PD_AfterIndex_Ahead(i) == i + 2

\* Lines 303 and 315: the first argument of the callback after item i: i + 1.
PD_AfterIndex(i) == i + 1

\* A destination passed for failed items too.
PD_AfterDest_Always(item, ok) == item

\* Lines 306 and 318: the last argument of the callback after an item:
\* str(output_path) if it succeeded, None if not.
PD_AfterDest(item, ok) == IF ok THEN item ELSE 0

\* Lines 288-319: the result of the item is recorded, the callback after the
\* item is called (with the output path if the item succeeded), and the loop
\* goes on. An exception that left process_single_image would leave
\* process_directory too.
PdAfter(t) ==
    /\ w[t].pc = "pd_after"
    /\ IF w[t].res = "raised"
       THEN /\ w' = [w EXCEPT ![t] = PdRaise(t)]
            /\ UNCHANGED hist
       ELSE \E o \in CallbackOutcomes(t) :
              LET ok == w[t].res = "true"
                  c == PD_Count(w[t].successful, w[t].frames, ItemOf(t), ok)
                  counted == [w[t] EXCEPT !.successful = c.successful, !.frames = c.frames,
                                          !.itemRes[ItemOf(t)] =
                                              IF Observed(t) THEN w[t].res ELSE @]
              IN /\ w' = [w EXCEPT ![t] =
                            IF CallbackEscapes(o)
                            THEN [counted EXCEPT !.pdret = "raised", !.pc = PdRaiseCont(t)]
                            ELSE [counted EXCEPT !.i = PD_NextIndex(w[t].i, w[t].n, ok),
                                                 !.pc = "pd_loop"]]
                 /\ hist' = LogEvent(t, "after", PD_AfterIndex(w[t].i),
                                      PD_AfterDest(ItemOf(t), ok), o)
    /\ UNCHANGED <<xr, rd, vf, psVars, smVars, ips, sm, nextHandle, fs, env>>

(***************************************************************************)
(* SpecIP: a client thread (thread 1) calls process_single_image or        *)
(* process_directory once; meanwhile another thread may call               *)
(* ImageProcessor.stop_processing, and another the session manager.        *)
(***************************************************************************)
Client == 1

HistInit ==
    [removes |-> {},
     events |-> <<>>, cbRaised |-> FALSE,
     out0 |-> [k \in Items |-> "absent"],
     ipStop |-> [req |-> FALSE, begun |-> 0, boundary |-> -1,
                 snap |-> [k \in Items |-> "absent"]]]

\* The client calls process_single_image(input, output, ..., progress_callback).
HCallSingle(t) ==
    /\ w[t].pc = "h_call"
    /\ \E cb \in BOOLEAN :
          w' = [w EXCEPT ![t].mode = "image", ![t].cb = cb, ![t].pc = "psi_entry"]
    /\ UNCHANGED <<xr, rd, vf, psVars, smVars, ips, sm, nextHandle, fs, env, hist>>

\* The client calls process_directory(input_dir, output_dir, ..., progress_callback).
HCallDirectory(t) ==
    /\ w[t].pc = "h_call"
    /\ \E pcb \in BOOLEAN :
          w' = [w EXCEPT ![t].mode = "directory", ![t].pcb = pcb, ![t].pc = "pd_entry"]
    /\ UNCHANGED <<xr, rd, vf, psVars, smVars, ips, sm, nextHandle, fs, env, hist>>

\* ImageProcessor.stop_processing() (lines 393-395) from another thread. The
\* history keeps where the client was at the first request: the items begun,
\* the item boundary k (the loop head after k items, k < n) if it was at one,
\* and the output files.
IpStop ==
    /\ ~hist.ipStop.req
    /\ ips' = IPS_stop_processing(ips)
    /\ hist' = [hist EXCEPT !.ipStop =
                  [req |-> TRUE, begun |-> Begun(Client),
                   boundary |-> IF w[Client].pc = "pd_loop" /\ w[Client].i < w[Client].n
                                THEN w[Client].i ELSE -1,
                   snap |-> fs.out]]
    /\ w' = [t \in Threads |->
               IF w[t].pc \in PsiPcs /\ w[t].stopAt = "none"
               THEN [w[t] EXCEPT !.stopAt = w[t].pc] ELSE w[t]]
    /\ UNCHANGED <<xr, rd, vf, psVars, smVars, sm, nextHandle, fs, env>>

\* SessionManager.create_session("u2net", False) (lines 43-46) from another thread.
HSmCreate ==
    /\ nextHandle <= MaxSessions
    /\ \E ok1 \in BOOLEAN :
          LET r == SM_create_session_internal(sm, "u2net", FALSE, ok1, FALSE, nextHandle, FALSE)
          IN /\ sm' = r.st
             /\ nextHandle' = IF r.ret THEN nextHandle + 1 ELSE nextHandle
    /\ UNCHANGED <<xr, rd, vf, psVars, smVars, ips, w, fs, env, hist>>

\* SessionManager.destroy_session() (lines 160-180) from another thread.
HSmDestroy ==
    /\ sm' = SM_destroy_session(sm)
    /\ UNCHANGED <<xr, rd, vf, psVars, smVars, ips, nextHandle, w, fs, env, hist>>

SMIdle ==
    /\ smLock = 0
    /\ scl = [c \in Callers |-> SCallerInit]
    /\ smTag = [model |-> 0, use_gpu |-> 0, last |-> "none"]

\* No video is on its way: nothing extracted, handed over or written.
VFInit ==
    [pc |-> "idle", native |-> 0, target |-> 0, srcN |-> 0, skip |-> 1,
     files |-> <<>>, handed |-> <<>>, dir |-> {}, written |-> <<>>]

\* No extra_params text is being followed.
XRInit ==
    [text |-> <<>>, ready |-> FALSE, eng |-> <<>>,
     run |-> [r \in {"given", "empty"} |->
                [pc |-> "idle", args |-> [kind |-> "none", n |-> 0],
                 invoked |-> "no", ret |-> "none"]]]

\* No safe_remove_directory call is being followed.
RDInit ==
    [pc |-> "idle", max_retries |-> 0, attempt |-> 0, exists |-> FALSE, left |-> 0,
     calls |-> 0, ret |-> "none"]

JobStateIdle ==
    /\ SMIdle
    /\ ps = PSInit
    /\ psLock = 0
    /\ cl = [c \in Callers |-> CallerInit]
    /\ lastMut = "init"
    /\ winners = 0

PSIdle == JobStateIdle /\ vf = VFInit /\ xr = XRInit /\ rd = RDInit

InitIP ==
    /\ PSIdle
    /\ ips = PSInit
    /\ sm = SMInit
    /\ nextHandle = 1
    /\ w = [t \in Threads |->
              IF t = Client THEN [WInit EXCEPT !.pc = "h_call", !.top = "harness"] ELSE WInit]
    /\ \E o \in [Items -> {"absent", "old"}] : fs = [FSInit EXCEPT !.out = o]
    /\ \E a \in BOOLEAN : env = [EnvInit EXCEPT !.avail = a]
    /\ hist = HistInit

NextIP ==
    \/ \E t \in {Client} : HCallSingle(t)
    \/ \E t \in {Client} : HCallDirectory(t)
    \/ \E t \in {Client} : PsiEntry(t)
    \/ \E t \in {Client} : PsiCheck(t)
    \/ \E t \in {Client} : PsiMem(t)
    \/ \E t \in {Client} : PsiRead(t)
    \/ \E t \in {Client} : PsiReady(t)
    \/ \E t \in {Client} : PsiRemove(t)
    \/ \E t \in {Client} : PsiMkdir(t)
    \/ \E t \in {Client} : PsiOpen(t)
    \/ \E t \in {Client} : PsiWrite(t)
    \/ \E t \in {Client} : PsiCallback(t)
    \/ \E t \in {Client} : PdEntry(t)
    \/ \E t \in {Client} : PdLoop(t)
    \/ \E t \in {Client} : PdBefore(t)
    \/ \E t \in {Client} : PdAfter(t)
    \/ IpStop
    \/ HSmCreate
    \/ HSmDestroy

SpecIP == InitIP /\ [][NextIP]_vars

(***************************************************************************)
(* gui/main_window.py MainWindow: the handlers of the UI thread.           *)
(***************************************************************************)
Unborn == {t \in Threads : w[t].pc = "unborn"}
Active(t) == w[t].pc \notin {"unborn", "w_tail", "done", "killed"}

\* start_processing (lines 892-917), the Process button. The thread started is
\* the first one not yet used.
UiStart ==
    /\ env.ui = "idle"
    /\ LET r == PS_start_processing(ps) IN
       IF ~r.ret
       THEN UNCHANGED <<ps, ips, w>>
       ELSE IF ~env.core
            THEN /\ ps' = PS_finish_processing(r.st)
                 /\ UNCHANGED <<ips, w>>
            ELSE \E started \in BOOLEAN :
                    /\ ips' = IPS_set_processing(ips, TRUE)
                    /\ IF started
                       THEN /\ Unborn # {}
                            /\ LET t == CHOOSE u \in Unborn : \A v \in Unborn : u <= v
                               IN w' = [w EXCEPT ![t] = [WInit EXCEPT !.pc = "w_validate",
                                                                     !.top = "app"]]
                            /\ ps' = r.st
                       ELSE /\ ps' = PS_finish_processing(r.st)
                            /\ UNCHANGED w
    /\ UNCHANGED <<xr, rd, vf, smVars, psLock, cl, lastMut, winners, sm, nextHandle, fs, env, hist>>

\* stop_processing (lines 919-927), the Stop button: the job state is told to
\* stop, then `self.image_processor.set_processing(False)`.
UiStop ==
    /\ env.ui = "idle"
    /\ ps' = PS_stop_processing(ps)
    /\ ips' = IPS_set_processing(ips, FALSE)
    /\ UNCHANGED <<xr, rd, vf, smVars, psLock, cl, lastMut, winners, sm, nextHandle, w, fs, env, hist>>

\* safe_remove_directory (utils/file_utils.py lines 93-123) on the registered
\* directories: each is removed, or the removal fails and it stays.
RemoveRegistered(tmp, removed) ==
    [t \in Threads |->
       IF t \in env.registry /\ removed THEN [exists |-> FALSE, frames |-> 0] ELSE tmp[t]]

\* on_window_close (lines 929-945): the job state is told to stop, the
\* registered temporary directories are removed and the window is destroyed.
UiClose ==
    /\ env.ui = "idle"
    /\ ps' = PS_stop_processing(ps)
    /\ \E removed \in BOOLEAN : fs' = [fs EXCEPT !.tmp = RemoveRegistered(fs.tmp, removed)]
    /\ env' = [env EXCEPT !.ui = "closed"]
    /\ UNCHANGED <<xr, rd, vf, smVars, psLock, cl, lastMut, winners, ips, sm, nextHandle, w, hist>>

\* The main loop has ended and the process exits: the cleanup registered with
\* atexit runs (lines 273-300) and the daemon worker threads end with the process.
UiExit ==
    /\ env.ui = "closed"
    /\ ps' = PS_stop_processing(ps)
    /\ \E removed \in BOOLEAN : fs' = [fs EXCEPT !.tmp = RemoveRegistered(fs.tmp, removed)]
    /\ sm' = SM_destroy_session(sm)
    /\ env' = [env EXCEPT !.ui = "exited"]
    /\ w' = [t \in Threads |-> IF Active(t) \/ w[t].pc = "w_tail"
                               THEN [WInit EXCEPT !.pc = "killed"] ELSE w[t]]
    /\ UNCHANGED <<xr, rd, vf, smVars, psLock, cl, lastMut, winners, ips, nextHandle, hist>>

(***************************************************************************)
(* gui/main_window.py MainWindow.processing_thread (lines 733-890).        *)
(***************************************************************************)
\* Lines 741-745: get_validated_inputs; invalid inputs end the job.
WValidate(t) ==
    /\ w[t].pc = "w_validate"
    /\ \E valid \in BOOLEAN :
          w' = [w EXCEPT ![t].pc = IF valid THEN "w_create" ELSE "w_finally"]
    /\ UNCHANGED <<xr, rd, vf, psVars, smVars, ips, sm, nextHandle, fs, env, hist>>

\* Lines 747-750: create_session(inputs['model'], self.use_gpu), with the
\* default model and self.use_gpu as setup_core_components leaves it (line 144).
WCreate(t) ==
    /\ w[t].pc = "w_create"
    /\ \E ok1 \in BOOLEAN :
          LET r == SM_create_session_internal(sm, "u2net", FALSE, ok1, FALSE, nextHandle, FALSE)
          IN /\ sm' = r.st
             /\ nextHandle' = IF r.ret THEN nextHandle + 1 ELSE nextHandle
             /\ w' = [w EXCEPT ![t].pc = IF r.ret THEN "w_dispatch" ELSE "w_finally"]
    /\ UNCHANGED <<xr, rd, vf, psVars, smVars, ips, fs, env, hist>>

\* Lines 757-769 and 776-787: a single image goes to process_single_image with
\* safe_update_progress as callback, a directory to process_directory with
\* directory_progress_callback.
WDispatchImage(t) ==
    /\ w[t].pc = "w_dispatch"
    /\ w' = [w EXCEPT ![t].mode = "image", ![t].cb = TRUE, ![t].pc = "psi_entry"]
    /\ UNCHANGED <<xr, rd, vf, psVars, smVars, ips, sm, nextHandle, fs, env, hist>>

WDispatchDirectory(t) ==
    /\ w[t].pc = "w_dispatch"
    /\ w' = [w EXCEPT ![t].mode = "directory", ![t].pcb = TRUE, ![t].pc = "pd_entry"]
    /\ UNCHANGED <<xr, rd, vf, psVars, smVars, ips, sm, nextHandle, fs, env, hist>>

\* Line 793: create_temp_directory (lines 722-731): mkdtemp, then the directory
\* is put on the list; a failure is raised again.
WDispatchVideo(t) ==
    /\ w[t].pc = "w_dispatch"
    /\ \E ok \in BOOLEAN :
          IF ok
          THEN /\ fs' = [fs EXCEPT !.tmp[t] = [exists |-> TRUE, frames |-> 0]]
               /\ env' = [env EXCEPT !.registry = @ \cup {t}]
               /\ w' = [w EXCEPT ![t].mode = "video", ![t].pc = "v_open"]
          ELSE /\ w' = [w EXCEPT ![t].mode = "video", ![t].pc = "w_except"]
               /\ UNCHANGED <<fs, env>>
    /\ UNCHANGED <<xr, rd, vf, psVars, smVars, ips, sm, nextHandle, hist>>

(***************************************************************************)
(* core/video_handler.py VideoHandler.extract_video_frames (lines 63-130). *)
(***************************************************************************)
\* Lines 95-103: frame_skip is 1 without a target rate, else
\* max(1, int(video_fps / fps)).
FrameSkips == {1, 2}

\* Lines 78-107: ensure_directory_exists(output_dir) makes the directory again
\* if it is gone (utils/file_utils.py lines 79-90; a failure is only logged);
\* the video is opened (or an exception is raised) and the counters start at
\* 0. srcN is the number of frames cap.read() will deliver.
VOpen(t) ==
    /\ w[t].pc = "v_open"
    /\ \E made \in (IF fs.tmp[t].exists THEN {TRUE} ELSE BOOLEAN) :
          fs' = [fs EXCEPT !.tmp[t].exists = made]
    /\ \E opened \in BOOLEAN, k \in 0..MaxItems, sk \in FrameSkips :
          w' = [w EXCEPT ![t] =
                  IF opened
                  THEN [w[t] EXCEPT !.srcN = k, !.skip = sk, !.fcount = 0, !.saved = 0,
                                    !.pc = "v_extract"]
                  ELSE [w[t] EXCEPT !.pc = "w_except"]]
    /\ UNCHANGED <<xr, rd, vf, psVars, smVars, ips, sm, nextHandle, env, hist>>

\* Lines 110-130: one turn of `while True`: the next frame is read; every
\* frame_skip-th frame is written with cv2.imwrite (which writes nothing into
\* a directory that is gone, and does not raise) and counted. The loop ends
\* when the source is exhausted; it reads no stop flag.
VExtract(t) ==
    /\ w[t].pc = "v_extract"
    /\ IF w[t].fcount >= w[t].srcN
       THEN /\ w' = [w EXCEPT ![t].pc = "v_extracted"]
            /\ UNCHANGED fs
       ELSE IF w[t].fcount % w[t].skip = 0
            THEN /\ fs' = [fs EXCEPT !.tmp[t].frames = IF fs.tmp[t].exists THEN @ + 1 ELSE @]
                 /\ w' = [w EXCEPT ![t].saved = @ + 1, ![t].fcount = @ + 1]
            ELSE /\ w' = [w EXCEPT ![t].fcount = @ + 1]
                 /\ UNCHANGED fs
    /\ UNCHANGED <<xr, rd, vf, psVars, smVars, ips, sm, nextHandle, env, hist>>

\* gui/main_window.py lines 802-832: with frames extracted and the job state
\* still processing, processed_frames is created (mkdir may raise) and the
\* frames go to process_directory with progress_callback_with_preview.
VExtracted(t) ==
    /\ w[t].pc = "v_extracted"
    /\ \E mk \in BOOLEAN :
          w' = [w EXCEPT ![t] =
                  CASE ~(w[t].saved > 0 /\ PS_is_processing(ps)) -> [w[t] EXCEPT !.pc = "vid_done"]
                    [] w[t].saved > 0 /\ PS_is_processing(ps) /\ ~mk -> [w[t] EXCEPT !.pc = "w_except"]
                    [] OTHER -> [w[t] EXCEPT !.pcb = TRUE, !.pc = "pd_entry"]]
    /\ UNCHANGED <<xr, rd, vf, psVars, smVars, ips, sm, nextHandle, fs, env, hist>>

\* gui/main_window.py lines 838-850: the video is reassembled if that was
\* asked for, frames were processed and the job state neither stopped nor idle.
VPdDone(t) ==
    /\ w[t].pc = "vid_pd_done"
    /\ \E reassemble \in BOOLEAN :
          w' = [w EXCEPT ![t].pc =
                  IF reassemble /\ w[t].frames # <<>>
                     /\ PS_is_processing(ps) /\ ~PS_should_stop(ps)
                  THEN "ra_entry" ELSE "vid_done"]
    /\ UNCHANGED <<xr, rd, vf, psVars, smVars, ips, sm, nextHandle, fs, env, hist>>

(***************************************************************************)
(* core/video_handler.py VideoHandler.reassemble_video_from_frames         *)
(* (lines 132-248). Every exception inside is caught at lines 246-248 and  *)
(* turned into `return False`.                                             *)
(***************************************************************************)
\* The elements of a set of items in ascending order: sorted(os.listdir(..)).
RECURSIVE SortedItems(_)
SortedItems(S) ==
    IF S = {} THEN <<>>
    ELSE LET lo == CHOOSE x \in S : \A y \in S : x <= y
         IN <<lo>> \o SortedItems(S \ {lo})

\* What line 241/244 returns for the value of is_processing() read at line 239.
RA_Result(running) == IF running THEN "true" ELSE "false"

\* Whether the directory is still there after the rmtree of lines 233-237
\* (a failure is only logged).
RA_DirAfterRmtree(removed) == ~removed

\* Lines 162-175: the frame files of processed_frames are listed, whatever
\* wrote them and however far; none raises, which the handler of lines 246-248
\* turns into `return False`. Otherwise greenscreen_frames is made with
\* ensure_directory_exists (a failure is only printed).
RaEntry(t) ==
    /\ w[t].pc = "ra_entry"
    /\ LET found == SortedItems({k \in Items : fs.proc[k] # "absent"})
       IN IF found = <<>>
          THEN /\ w' = [w EXCEPT ![t].raret = "false", ![t].pc = "vid_done"]
               /\ UNCHANGED fs
          ELSE /\ w' = [w EXCEPT ![t].rf = found, ![t].cj = 0, ![t].pc = "ra_comp"]
               /\ \E made \in (IF fs.greenDir THEN {TRUE} ELSE BOOLEAN) :
                     fs' = [fs EXCEPT !.greenDir = made]
    /\ UNCHANGED <<xr, rd, vf, psVars, smVars, ips, sm, nextHandle, env, hist>>

\* Lines 179-190: one turn of the compositing loop: the stop check, then
\* apply_greenscreen_background (core/processor.py lines 342-383), which
\* returns False for a frame it cannot read or write, and makes the directory
\* before it writes. A False is only logged (line 190).
RaComp(t) ==
    /\ w[t].pc = "ra_comp"
    /\ IF w[t].cj >= Len(w[t].rf) \/ ~IPS_is_processing(ips)
       THEN /\ w' = [w EXCEPT ![t].pc = "ra_check"]
            /\ UNCHANGED fs
       ELSE LET k == w[t].rf[w[t].cj + 1] IN
            /\ \E ok \in (IF fs.proc[k] \in {"new", "old"} THEN BOOLEAN ELSE {FALSE}) :
                  fs' = [fs EXCEPT !.green = IF ok THEN @ \cup {k} ELSE @,
                                   !.greenDir = IF ok THEN TRUE ELSE @]
            /\ w' = [w EXCEPT ![t].cj = @ + 1]
    /\ UNCHANGED <<xr, rd, vf, psVars, smVars, ips, sm, nextHandle, env, hist>>

\* Lines 192-211: stopped: `return False`. Otherwise the first file of
\* greenscreen_frames gives the size (a missing or empty directory or an
\* unreadable file raises, and lines 246-248 return False), the writer is
\* opened and the files are listed. Neither return removes the directory.
RaCheck(t) ==
    /\ w[t].pc = "ra_check"
    /\ \E readable \in BOOLEAN :
          IF ~IPS_is_processing(ips) \/ fs.green = {} \/ ~readable
          THEN /\ w' = [w EXCEPT ![t].raret = "false", ![t].pc = "vid_done"]
               /\ UNCHANGED fs
          ELSE /\ w' = [w EXCEPT ![t].gf = SortedItems(fs.green), ![t].wj = 0,
                                  ![t].pc = "ra_write"]
               /\ fs' = [fs EXCEPT !.video = <<>>]
    /\ UNCHANGED <<xr, rd, vf, psVars, smVars, ips, sm, nextHandle, env, hist>>

\* Lines 213-228: one turn of the writing loop: the stop check, then the frame
\* is read and, if that gave an image, written to the video; a frame that
\* cannot be read is passed over.
RaWrite(t) ==
    /\ w[t].pc = "ra_write"
    /\ IF w[t].wj >= Len(w[t].gf) \/ ~IPS_is_processing(ips)
       THEN /\ w' = [w EXCEPT ![t].pc = "ra_release"]
            /\ UNCHANGED fs
       ELSE /\ \E read \in BOOLEAN :
                  fs' = [fs EXCEPT !.video = IF read THEN Append(@, w[t].gf[w[t].wj + 1]) ELSE @]
            /\ w' = [w EXCEPT ![t].wj = @ + 1]
    /\ UNCHANGED <<xr, rd, vf, psVars, smVars, ips, sm, nextHandle, env, hist>>

\* Lines 230-244: the writer is released, greenscreen_frames is removed with
\* one rmtree (a failure is only logged) and the result is whether the job
\* still runs.
RaRelease(t) ==
    /\ w[t].pc = "ra_release"
    /\ \E removed \in BOOLEAN :
          fs' = [fs EXCEPT !.green = IF RA_DirAfterRmtree(removed) THEN @ ELSE {},
                           !.greenDir = RA_DirAfterRmtree(removed)]
    /\ w' = [w EXCEPT ![t].raret = RA_Result(IPS_is_processing(ips)), ![t].pc = "vid_done"]
    /\ UNCHANGED <<xr, rd, vf, psVars, smVars, ips, sm, nextHandle, env, hist>>

\* Lines 771-774 (image) and 789-790 (directory): the result is shown or
\* logged; an exception raised here, or one that left process_directory or the
\* video stages, arrives at the handler of lines 854-857. All lead to `finally`,
\* where the locals of the stages are dead.
WJobEnd(t) ==
    /\ w[t].pc \in {"img_done", "dir_done", "vid_done", "w_except"}
    /\ w' = [w EXCEPT ![t] = [WInit EXCEPT !.pc = "w_finally", !.top = "app"]]
    /\ UNCHANGED <<xr, rd, vf, psVars, smVars, ips, sm, nextHandle, fs, env, hist>>

\* Lines 859-863: `finally`: the session is destroyed.
WFinally(t) ==
    /\ w[t].pc = "w_finally"
    /\ sm' = SM_destroy_session(sm)
    /\ w' = [w EXCEPT ![t].pc = "w_cleanup"]
    /\ UNCHANGED <<xr, rd, vf, psVars, smVars, ips, nextHandle, fs, env, hist>>

\* Lines 865-872: the job's temporary directory, if it made one, is removed
\* (or the removal fails) and taken off the list.
WCleanup(t) ==
    /\ w[t].pc = "w_cleanup"
    /\ \E removed \in BOOLEAN :
          fs' = [fs EXCEPT !.tmp[t] = IF removed THEN [exists |-> FALSE, frames |-> 0] ELSE @]
    /\ env' = [env EXCEPT !.registry = @ \ {t}]
    /\ w' = [w EXCEPT ![t].pc = "w_finish"]
    /\ UNCHANGED <<xr, rd, vf, psVars, smVars, ips, sm, nextHandle, hist>>

\* Line 875: `self.processing_state.finish_processing()`.
WFinish(t) ==
    /\ w[t].pc = "w_finish"
    /\ ps' = PS_finish_processing(ps)
    /\ w' = [w EXCEPT ![t].pc = "w_tail"]
    /\ UNCHANGED <<xr, rd, vf, smVars, psLock, cl, lastMut, winners, ips, sm, nextHandle, fs, env, hist>>

\* Lines 877-890: reset_gui is scheduled on the UI thread and the thread ends.
WTail(t) ==
    /\ w[t].pc = "w_tail"
    /\ w' = [w EXCEPT ![t].pc = "done"]
    /\ UNCHANGED <<xr, rd, vf, psVars, smVars, ips, sm, nextHandle, fs, env, hist>>

Init ==
    /\ PSIdle
    /\ ips = PSInit
    /\ sm = SMInit
    /\ nextHandle = 1
    /\ w = [t \in Threads |-> WInit]
    /\ fs = FSInit
    /\ \E c \in BOOLEAN : env = [EnvInit EXCEPT !.core = c]
    /\ hist = HistInit

Next ==
    \/ UiStart
    \/ UiStop
    \/ UiClose
    \/ UiExit
    \/ \E t \in Threads : WValidate(t)
    \/ \E t \in Threads : WCreate(t)
    \/ \E t \in Threads : WDispatchImage(t)
    \/ \E t \in Threads : WDispatchDirectory(t)
    \/ \E t \in Threads : WDispatchVideo(t)
    \/ \E t \in Threads : VOpen(t)
    \/ \E t \in Threads : VExtract(t)
    \/ \E t \in Threads : VExtracted(t)
    \/ \E t \in Threads : VPdDone(t)
    \/ \E t \in Threads : RaEntry(t)
    \/ \E t \in Threads : RaComp(t)
    \/ \E t \in Threads : RaCheck(t)
    \/ \E t \in Threads : RaWrite(t)
    \/ \E t \in Threads : RaRelease(t)
    \/ \E t \in Threads : WJobEnd(t)
    \/ \E t \in Threads : WFinally(t)
    \/ \E t \in Threads : WCleanup(t)
    \/ \E t \in Threads : WFinish(t)
    \/ \E t \in Threads : WTail(t)
    \/ \E t \in Threads : PsiEntry(t)
    \/ \E t \in Threads : PsiCheck(t)
    \/ \E t \in Threads : PsiMem(t)
    \/ \E t \in Threads : PsiRead(t)
    \/ \E t \in Threads : PsiReady(t)
    \/ \E t \in Threads : PsiRemove(t)
    \/ \E t \in Threads : PsiMkdir(t)
    \/ \E t \in Threads : PsiOpen(t)
    \/ \E t \in Threads : PsiWrite(t)
    \/ \E t \in Threads : PsiCallback(t)
    \/ \E t \in Threads : PdEntry(t)
    \/ \E t \in Threads : PdLoop(t)
    \/ \E t \in Threads : PdBefore(t)
    \/ \E t \in Threads : PdAfter(t)

Spec == Init /\ [][Next]_vars

\* Any step of worker thread t: processing_thread and everything it calls.
WorkerStep(t) ==
    \/ WValidate(t) \/ WCreate(t)
    \/ WDispatchImage(t) \/ WDispatchDirectory(t) \/ WDispatchVideo(t)
    \/ VOpen(t) \/ VExtract(t) \/ VExtracted(t) \/ VPdDone(t)
    \/ RaEntry(t) \/ RaComp(t) \/ RaCheck(t) \/ RaWrite(t) \/ RaRelease(t)
    \/ WJobEnd(t) \/ WFinally(t) \/ WCleanup(t) \/ WFinish(t) \/ WTail(t)
    \/ PsiEntry(t) \/ PsiCheck(t) \/ PsiMem(t) \/ PsiRead(t) \/ PsiReady(t)
    \/ PsiRemove(t) \/ PsiMkdir(t) \/ PsiOpen(t) \/ PsiWrite(t) \/ PsiCallback(t)
    \/ PdEntry(t) \/ PdLoop(t) \/ PdBefore(t) \/ PdAfter(t)

\* The application with its worker threads scheduled: while some thread
\* started at line 911 can take a step, one of them eventually does (the
\* blocking calls return). The UI handlers run only when the user acts.
SpecLive == Spec /\ WF_vars(\E t \in Threads : WorkerStep(t))

(***************************************************************************)
(* SpecPS: only the job state moves.                                       *)
(***************************************************************************)
IPIdle ==
    /\ ips = PSInit
    /\ sm = SMInit
    /\ nextHandle = 1
    /\ w = [t \in Threads |-> WInit]
    /\ fs = FSInit
    /\ env = EnvInit
    /\ hist = HistInit

InitPS == PSIdle /\ IPIdle

NextPS ==
    \/ \E c \in Callers, o \in PSOps : PSCall(c, o)
    \/ \E c \in Callers : PSAcquire(c)
    \/ \E c \in Callers : PSStartTest(c)
    \/ \E c \in Callers : PSStartSet1(c)
    \/ \E c \in Callers : PSStartSet2(c)
    \/ \E c \in Callers : PSStopSet(c)
    \/ \E c \in Callers : PSFinishSet1(c)
    \/ \E c \in Callers : PSFinishSet2(c)
    \/ \E c \in Callers : PSRead(c)
    \/ \E c \in Callers : PSRelease(c)

SpecPS == InitPS /\ [][NextPS]_vars

(***************************************************************************)
(* SpecSM: only the session manager moves, with or without rembg.          *)
(***************************************************************************)
InitSM ==
    /\ PSIdle
    /\ ips = PSInit
    /\ sm = SMInit
    /\ nextHandle = 1
    /\ w = [t \in Threads |-> WInit]
    /\ fs = FSInit
    /\ \E a \in BOOLEAN : env = [EnvInit EXCEPT !.avail = a]
    /\ hist = HistInit

NextSM ==
    \/ \E c \in Callers : SmCall(c)
    \/ \E c \in Callers : SmAcquire(c)
    \/ \E c \in Callers : SmRecreate(c)
    \/ \E c \in Callers : SmAvail(c)
    \/ \E c \in Callers : SmProbe1(c)
    \/ \E c \in Callers : SmNewSession(c)
    \/ \E c \in Callers : SmSetModel(c)
    \/ \E c \in Callers : SmSetGpu(c)
    \/ \E c \in Callers : SmProbe2(c)
    \/ \E c \in Callers : SmDestroy(c)
    \/ \E c \in Callers : SmGetSession(c)
    \/ \E c \in Callers : SmIsReady(c)
    \/ \E c \in Callers : SmInfo(c)
    \/ \E c \in Callers : SmRelease(c)

SpecSM == InitSM /\ [][NextSM]_vars

(***************************************************************************)
(* Properties of the job state (SpecPS).                                   *)
(***************************************************************************)
StartReturned(c) == cl[c].pc = "returned" /\ cl[c].op = "start"

\* C2: a start_processing() call that finds the state running returns False and
\* leaves both flags as it found them; the first start_processing() after a
\* finish_processing() (or on the fresh state) returns True; and of the calls made
\* on an idle state exactly one returns True: between two finishes never two
\* calls have returned True, and whenever no call is inside the lock the state is
\* running if and only if one call has returned True since the last finish.
C2_TryStartExclusive ==
    /\ \A c \in Callers :
          StartReturned(c) =>
             /\ (cl[c].pre.processing => cl[c].ret = "false" /\ cl[c].post = cl[c].pre)
             /\ (cl[c].after \in {"init", "finish"} => cl[c].ret = "true")
             /\ (cl[c].after = "start" => cl[c].ret = "false")
    /\ winners <= 1
    /\ (psLock = 0 => (ps.processing <=> winners = 1))

\* C2 witness: one caller was refused on a running state while another caller's
\* call, the first after a finish_processing(), has returned True.
C2_Witness ==
    \E c, d \in Callers :
        /\ c # d
        /\ StartReturned(c) /\ cl[c].pre.processing /\ cl[c].ret = "false"
        /\ StartReturned(d) /\ cl[d].after = "finish" /\ cl[d].ret = "true"

(***************************************************************************)
(* Properties of the image processor (SpecIP).                             *)
(***************************************************************************)
\* A process_single_image call of thread t has returned (or was left by an
\* exception) and its result is in res.
CallDone(t) ==
    /\ w[t].res # "none"
    /\ \/ w[t].mode = "image" /\ w[t].pc \in {"h_done", "img_done"}
       \/ w[t].pc = "pd_after"

OutNow(t) == fs[OutDir(t)][ItemOf(t)]

\* C4: once ImageProcessor.stop_processing() has been called, the batch loop
\* begins no item that had not begun at that moment (its check at the loop head
\* precedes every item), and every output file complete at that moment is still
\* complete.
C4_NoItemBeginsAfterStop ==
    hist.ipStop.req =>
       /\ Begun(Client) <= hist.ipStop.begun
       /\ \A k \in Items : hist.ipStop.snap[k] = "new" => fs.out[k] = "new"

\* C4 witness: stop was requested with one item written and another still to
\* come, and process_directory has returned.
C4_Witness ==
    /\ hist.ipStop.req /\ w[Client].pdret = "value"
    /\ hist.ipStop.begun >= 1 /\ hist.ipStop.begun < w[Client].n
    /\ \E k \in Items : hist.ipStop.snap[k] = "new"

\* The items 1..k whose process_single_image returned True.
Succeeded(t, k) == {j \in Items : j <= k /\ w[t].itemRes[j] = "true"}

\* C5 as claimed: when stop is requested at the boundary after item k
\* (0 <= k < n), then at the return of process_directory the outputs of items
\* 1..k exist, all k of them, and nothing exists for a later item that did not
\* exist before.
C5_ExactlyKOutputs ==
    (hist.ipStop.boundary >= 0 /\ w[Client].pdret = "value") =>
       \A j \in Items :
          /\ j <= hist.ipStop.boundary => fs.out[j] = "new"
          /\ j > hist.ipStop.boundary => fs.out[j] = hist.out0[j]

\* C5 amended: when stop is requested at the boundary after item k, then at
\* the return of process_directory the complete outputs are exactly those of the
\* items among 1..k that succeeded (k of them only if none failed), the result
\* counts exactly these, and for every later item nothing was attempted and its
\* output path is as it was before the call.
C5_OutputsOfSucceededItems ==
    (hist.ipStop.boundary >= 0 /\ w[Client].pdret = "value") =>
       LET k == hist.ipStop.boundary IN
       /\ \A j \in Items :
             /\ (j <= k /\ w[Client].itemRes[j] = "true") => fs.out[j] = "new"
             /\ (j <= k /\ w[Client].itemRes[j] # "true") => fs.out[j] # "new"
             /\ j > k => fs.out[j] = hist.out0[j] /\ w[Client].itemRes[j] = "none"
       /\ w[Client].successful = Cardinality(Succeeded(Client, k))
       /\ Len(w[Client].frames) = w[Client].successful
       /\ w[Client].successful <= k

\* C5 witness: stop came at the boundary after item 1 of a longer batch, item 1
\* had succeeded, and process_directory has returned.
C5_Witness ==
    /\ hist.ipStop.boundary = 1 /\ w[Client].pdret = "value"
    /\ w[Client].n > 1 /\ w[Client].itemRes[1] = "true" /\ fs.out[1] = "new"

\* The call of thread t is over and stop had been requested when it stood
\* before one of the statements in `at`, or before the call.
StoppedAt(t, at) == CallDone(t) /\ w[t].stopAt \in (at \cup {"before"})

\* C7 as claimed: a process_single_image call during which stop was requested
\* at any point before its write step (the save block of lines 172-188) began
\* returns False and leaves the output path untouched.
C7_StopBeforeWriteStep ==
    \A t \in Threads :
       StoppedAt(t, PsiBeforeSave \cup {"psi_mkdir"}) =>
          /\ w[t].res = "false"
          /\ OutNow(t) = w[t].pre0

\* C7 amended: a process_single_image call during which stop was requested
\* before its last check ran (before the call, or while it stood before a
\* check, the memory test, the read, the readiness test or the engine) returns
\* False, never opens the output path and leaves it as it found it.
C7_StopBeforeLastCheckWritesNothing ==
    \A t \in Threads :
       StoppedAt(t, PsiBeforeSave) =>
          /\ w[t].res = "false"
          /\ OutNow(t) = w[t].pre0
          /\ w[t].opens = 0

\* C7 witness: stop was requested after the engine had returned, while the call
\* stood before its last check, and the call returned False.
C7_Witness ==
    \E t \in Threads :
       CallDone(t) /\ w[t].stopAt = "psi_check3" /\ w[t].res = "false"

\* C8 as claimed: a call that returns True has written the output file once and
\* completely; a call that returns False has neither created nor modified the
\* output path.
C8_NoWriteOnFailure ==
    \A t \in Threads :
       CallDone(t) =>
          /\ w[t].res = "true" => OutNow(t) = "new" /\ w[t].opens = 1
          /\ w[t].res = "false" => OutNow(t) = w[t].pre0

\* C9: whatever its collaborators do (memory probe, read, readiness, engine,
\* directory creation, write, callback), process_single_image ends with True or
\* False: no exception leaves it.
C9_NoExceptionEscapes ==
    \A t \in Threads :
       /\ w[t].res # "raised"
       /\ CallDone(t) => w[t].res \in {"true", "false"}

\* C9 witness: a statement guarded by the outer handler alone (the memory probe)
\* raised, and the call returned False.
C9_Witness ==
    \E t \in Threads :
       CallDone(t) /\ w[t].raisedAt = "mem" /\ w[t].res = "false"

\* C10 as claimed: the engine's remove is never invoked with a null handle.
C10_RemoveGetsLiveHandle == 0 \notin hist.removes


(***************************************************************************)
(* Properties of the application (Spec).                                   *)
(***************************************************************************)
Workers == {t \in Threads : Active(t)}

\* While a job runs no thread is started, and the job state is not started
\* afresh: its stop flag, once set, stays until the job's own finish.
RunningJobKeepsState ==
    Workers # {} =>
        /\ \A u \in Threads : w[u].pc = "unborn" => w'[u].pc = "unborn"
        /\ ps.should_stop /\ ps'.processing => ps'.should_stop

\* C1: under every interleaving of Process, Stop and window close with the
\* worker's progress at most one worker thread is active, and a
\* start_processing() while a job runs starts no thread and leaves the job
\* state as it is.
C1_AtMostOneWorker ==
    /\ [](Cardinality(Workers) <= 1 /\ (Workers # {} => PS_is_processing(ps)))
    /\ [][RunningJobKeepsState]_vars

\* A second job runs, with Process available, while the thread of the first is
\* still in its tail.
C1_Witness ==
    /\ w[1].pc = "w_tail"
    /\ Active(2)
    /\ env.ui = "idle"

\* The Stop handler has returned during the job of thread t, and the window is open.
StopRequested(t) == Active(t) /\ PS_should_stop(ps) /\ env.ui = "idle"

\* C3 (the claim as stated): once MainWindow.stop_processing has returned
\* during a directory job or the frame-processing stage of a video job, the
\* batch loop begins no further item.
C3_StopHaltsBatch ==
    [][\A t \in Threads :
          StopRequested(t) /\ w[t].mode \in {"directory", "video"}
          /\ w[t].pc \in ({"pd_loop", "pd_before", "pd_after"} \cup PsiPcs)
          => Begun(t)' <= Begun(t)]_vars

\* C6 (the claim as stated): once stop has been requested, the extraction loop
\* saves no further frame, the compositing loop composites none and the
\* writing loop writes none.
C6_StopHaltsVideoLoops ==
    [][\A t \in Threads :
          StopRequested(t) =>
             /\ w[t].pc = "v_extract" => w'[t].saved = w[t].saved
             /\ w[t].pc = "ra_comp" => w'[t].cj = w[t].cj
             /\ w[t].pc = "ra_write" => w'[t].wj = w[t].wj]_vars

\* The part of C6 the code keeps: the loops of
\* reassemble_video_from_frames stop at the next frame.
ReassemblyLoopsStop ==
    [][\A t \in Threads :
          StopRequested(t) =>
             /\ w[t].pc = "ra_comp" => w'[t].cj = w[t].cj
             /\ w[t].pc = "ra_write" => w'[t].wj = w[t].wj]_vars

(***************************************************************************)
(* process_directory: results and progress events (SpecIP).                *)
(***************************************************************************)
\* process_directory has returned a result to the client.
PdReturned == w[Client].pc = "h_done" /\ w[Client].pdret = "value"

\* The loop of process_directory was entered (files found, output directory
\* created).
LoopEntered == w[Client].n > 0

\* The items of the batch that process_single_image was called for.
Started == {j \in Items : w[Client].att[j] > 0}

\* The items of the batch whose process_single_image returned False.
Failed == {j \in Items : j <= w[Client].n /\ w[Client].itemRes[j] = "false"}

\* C11: a failed item never stops a batch. When no stop was requested and
\* process_directory returns from its loop over n items, every item was handed
\* to process_single_image exactly once, total = n, successful = n - f for the
\* f items that failed, and processed_frames holds exactly the n - f paths
\* written, each of them complete.
C11_FailureNeverStopsBatch ==
    (PdReturned /\ LoopEntered /\ ~hist.ipStop.req) =>
       LET n == w[Client].n IN
       /\ \A j \in Items : w[Client].att[j] = (IF j <= n THEN 1 ELSE 0)
       /\ \A j \in Items : j <= n => w[Client].itemRes[j] \in {"true", "false"}
       /\ w[Client].total = n
       /\ w[Client].successful = n - Cardinality(Failed)
       /\ w[Client].frames = SortedItems(Succeeded(Client, n))
       /\ \A j \in Succeeded(Client, n) : fs.out[j] = "new"

\* C11 witness: a batch without a stop request has returned, its first item
\* failed and a later one succeeded.
C11_Witness ==
    /\ PdReturned /\ LoopEntered /\ ~hist.ipStop.req
    /\ w[Client].itemRes[1] = "false"
    /\ \E j \in Items : j > 1 /\ w[Client].itemRes[j] = "true"
    /\ w[Client].successful = w[Client].n - 1

\* C12: whenever process_directory returns a result, after an interrupted run
\* too, successful = len(processed_frames) <= items started <= total, and
\* processed_frames holds exactly the paths of the items that returned True, in
\* the order in which they completed (which is the order of the batch).
C12_ResultAccounting ==
    PdReturned =>
       /\ w[Client].successful = Len(w[Client].frames)
       /\ Len(w[Client].frames) <= Cardinality(Started)
       /\ Cardinality(Started) <= w[Client].total
       /\ w[Client].frames = SortedItems(Succeeded(Client, MaxItems))
       /\ Succeeded(Client, MaxItems) \subseteq Started

\* C12 witness: an interrupted run has returned: stop was requested, fewer
\* items were started than found, and one of them had succeeded.
C12_Witness ==
    /\ PdReturned /\ hist.ipStop.req
    /\ Cardinality(Started) < w[Client].total
    /\ w[Client].successful >= 1

\* The progress events delivered so far, and the first arguments passed.
Events == hist.events

\* Every callback call of the batch so far has returned normally.
CallbacksReturned == w[Client].pcb /\ ~hist.cbRaised

\* C13 (the claim as stated): the index values passed to the progress callback
\* by process_directory are strictly increasing from one call to the next, and
\* each is bounded by total.
C13_IndexStrictlyIncreasing ==
    /\ \A a \in 1..Len(Events) : Events[a].idx <= Events[a].total
    /\ \A a \in 1..Len(Events) : a > 1 => Events[a - 1].idx < Events[a].idx

\* C13 amended: the index values passed to the progress callback by
\* process_directory never decrease and are bounded by total; they increase
\* strictly from one "before" call to the next and from one "after" call to
\* the next, while the "before" call of an item repeats the index of the
\* "after" call of the item before it.
C13_IndexNonDecreasing ==
    /\ \A a \in 1..Len(Events) :
          /\ Events[a].idx <= Events[a].total
          /\ Events[a].kind = "before" => Events[a].idx < Events[a].total
    /\ \A a \in 1..Len(Events) : a > 1 => Events[a - 1].idx <= Events[a].idx
    /\ \A a, b \in 1..Len(Events) :
          (a < b /\ Events[a].kind = Events[b].kind) => Events[a].idx < Events[b].idx
    /\ \A a \in 1..Len(Events) :
          (a > 1 /\ Events[a].kind = "before") =>
             Events[a - 1].kind = "after" /\ Events[a - 1].idx = Events[a].idx

\* C13 witness: the callback was called after the first item and before the
\* second with the same index.
C13_Witness ==
    /\ Len(Events) >= 3
    /\ Events[2].kind = "after" /\ Events[3].kind = "before"
    /\ Events[2].idx = 1 /\ Events[3].idx = 1

\* C14: for each item that process_directory starts there is exactly one
\* "before" event (i, total, source, no destination), delivered before the item
\* is processed, and exactly one "after" event (i + 1, total, source, and the
\* destination if and only if the item succeeded), delivered after it; the two
\* events of an item precede every event of the next. (The events are the
\* calls of a callback that returns; one that raises ends the batch.)
C14_OneBeforeOneAfterPerItem ==
    /\ \A a \in 1..Len(Events) :
          LET j == (a + 1) \div 2 IN
          /\ Events[a].item = j /\ Events[a].total = w[Client].n
          /\ a % 2 = 1 => /\ Events[a].kind = "before" /\ Events[a].idx = j - 1
                          /\ Events[a].dest = 0
                          /\ (a < Len(Events) \/ CallbacksReturned) => w[Client].att[j] = 1
          /\ a % 2 = 0 => /\ Events[a].kind = "after" /\ Events[a].idx = j
                          /\ w[Client].itemRes[j] \in {"true", "false"}
                          /\ Events[a].dest = j <=> w[Client].itemRes[j] = "true"
                          /\ Events[a].dest \in {0, j}
    /\ CallbacksReturned =>
          /\ Len(Events) = Cardinality(Started)
                            + Cardinality({j \in Items : w[Client].itemRes[j] # "none"})
          /\ (w[Client].mode = "directory" /\ w[Client].pc \in PsiPcs) =>
                /\ Len(Events) = 2 * ItemOf(Client) - 1
                /\ w[Client].itemRes[ItemOf(Client)] = "none"

\* C14 witness: a batch of two or more items has returned, its first item
\* failed and its second succeeded, and the callback got the four events of
\* the two.
C14_Witness ==
    /\ PdReturned /\ CallbacksReturned
    /\ Len(Events) >= 4
    /\ Events[2].dest = 0 /\ Events[4].dest = 2

(***************************************************************************)
(* Properties of the session manager (SpecSM). A method call is judged     *)
(* where it leaves its `with` block: its result is decided and the fields  *)
(* are as it leaves them.                                                  *)
(***************************************************************************)
\* Thread c is about to return from create_session or recreate_session_if_needed.
ConfigureReturns(c) == scl[c].pc = "release" /\ scl[c].op \in ConfigureOps

\* The request of thread c is the (model, use_gpu) recorded for the session
\* that was live when the call entered the lock.
RequestMatched(c) ==
    /\ scl[c].pre.session # 0
    /\ scl[c].pre.model = scl[c].model
    /\ scl[c].pre.use_gpu = scl[c].use_gpu

\* C15 (the claim as stated): a create_session or recreate_session_if_needed
\* call whose (model, use_gpu) equals the recorded pair of the live session
\* returns True without calling new_session and leaves the handle as it was;
\* new_session is called only when no session is live or the pair differs.
C15_MatchingConfigureIsNoOp ==
    \A c \in Callers :
       ConfigureReturns(c) =>
          /\ RequestMatched(c) => /\ scl[c].ret = "true"
                                  /\ scl[c].calls = <<>>
                                  /\ sm.session = scl[c].pre.session
          /\ scl[c].calls # <<>> => ~RequestMatched(c)

\* The part of C15 the code keeps: recreate_session_if_needed with the
\* recorded pair of the live session returns True, calls nothing and leaves
\* all fields as they were.
RecreateMatchingIsNoOp ==
    \A c \in Callers :
       (ConfigureReturns(c) /\ scl[c].op = "recreate" /\ RequestMatched(c)) =>
          scl[c].ret = "true" /\ scl[c].calls = <<>> /\ sm = scl[c].pre

\* The attempts a configure call may make, and those of them that may raise.
MaxAttempts(c) == IF scl[c].use_gpu THEN 2 ELSE 1

\* C16: the fallback is a single-level retry. One configure call calls
\* new_session at most twice and makes at most two attempts; a second
\* new_session call happens only in a call that asked for the GPU, after an
\* attempt that raised, and with the CPU provider list; and once the CPU
\* attempt has raised, the call returns False.
C16_SingleLevelRetry ==
    \A c \in Callers :
       LET r == scl[c] IN
       r.op \in ConfigureOps =>
          /\ Len(r.calls) <= 2
          /\ r.raises <= MaxAttempts(c)
          /\ \A k \in 1..Len(r.calls) :
                /\ r.calls[k].after < MaxAttempts(c)
                /\ r.calls[k].after >= 1 => r.use_gpu /\ r.calls[k].prov = "cpu"
                /\ k > 1 => r.calls[k].after >= 1
                /\ r.calls[k].prov = "gpu" => r.use_gpu /\ r.calls[k].after = 0
          /\ r.raises = MaxAttempts(c) => r.pc = "release" /\ r.ret = "false"

\* C16 witness: a call that asked for the GPU returns False after two
\* new_session calls, the GPU one and the CPU one, which both raised.
C16_Witness ==
    \E c \in Callers :
       /\ ConfigureReturns(c) /\ scl[c].use_gpu /\ scl[c].ret = "false"
       /\ Len(scl[c].calls) = 2
       /\ scl[c].calls[1].prov = "gpu" /\ ~scl[c].calls[1].ok
       /\ scl[c].calls[2].prov = "cpu" /\ ~scl[c].calls[2].ok

\* The configure call of thread c asked for the GPU, its new_session call
\* with the GPU provider list raised, and nothing else in the call raised.
GpuCreationThrew(c) ==
    /\ ConfigureReturns(c) /\ scl[c].use_gpu
    /\ scl[c].calls # <<>>
    /\ scl[c].calls[1].prov = "gpu" /\ ~scl[c].calls[1].ok
    /\ scl[c].raises = 1

\* C17: for every model m, a configure call (m, use_gpu = True) whose GPU
\* creation raises and whose CPU creation succeeds calls new_session a second
\* time with the CPU provider list, returns True, and leaves model = m,
\* use_gpu = False and a session ready: the new handle.
C17_CpuFallbackReady ==
    \A c \in Callers :
       GpuCreationThrew(c) =>
          /\ Len(scl[c].calls) = 2
          /\ scl[c].calls[2].prov = "cpu" /\ scl[c].calls[2].ok
          /\ scl[c].ret = "true"
          /\ sm.model = scl[c].model /\ ~sm.use_gpu
          /\ sm.session # 0 /\ sm.session # scl[c].pre.session

\* C17 witness: such a call for "u2net" returns, with a session for "isnet"
\* found at its start.
C17_Witness ==
    \E c \in Callers :
       /\ GpuCreationThrew(c) /\ scl[c].model = "u2net"
       /\ scl[c].pre.session # 0 /\ scl[c].pre.model = "isnet"
       /\ scl[c].ret = "true" /\ sm.model = "u2net"

\* Nothing raised in the call of thread c but new_session.
OnlyCreationRaised(c) ==
    scl[c].raises = Cardinality({k \in 1..Len(scl[c].calls) : ~scl[c].calls[k].ok})

\* C18 (the claim as stated): a configure call that does not match the
\* current session has destroyed the existing handle when it first calls
\* new_session, and a configure call that returns False (because no session
\* could be created) leaves no handle live.
C18_FailureLeavesNoHandle ==
    \A c \in Callers :
       /\ (scl[c].pc = "ci_new" /\ scl[c].calls = <<>> /\ ~RequestMatched(c)) =>
             sm.session = 0
       /\ (ConfigureReturns(c) /\ scl[c].ret = "false" /\ OnlyCreationRaised(c)) =>
             sm.session = 0

\* The part of C18 the code keeps: recreate_session_if_needed has dropped the
\* handle it found when it calls new_session.
RecreateClearsHandleFirst ==
    \A c \in Callers :
       (scl[c].op = "recreate" /\ scl[c].pc = "ci_new" /\ scl[c].calls = <<>>) =>
          sm.session = 0

\* C19: the methods of the session manager exclude each other: at most one
\* thread is inside a `with self._lock` block, and it holds the lock. So
\* whenever nobody is inside, the model and the GPU flag of a live session are
\* those written for that handle, and what get_session_info returns is what
\* was there when it entered: handle, model and flag of one operation.
C19_Serialized ==
    /\ Cardinality({c \in Callers : scl[c].pc \in SmInside}) <= 1
    /\ \A c \in Callers : scl[c].pc \in SmInside => smLock = c
    /\ (smLock = 0 /\ sm.session # 0) =>
          smTag.model = sm.session /\ smTag.use_gpu = sm.session
    /\ \A c \in Callers :
          (scl[c].pc = "release" /\ scl[c].op = "get_session_info") =>
             /\ scl[c].obs.model = scl[c].pre.model
             /\ scl[c].obs.use_gpu = scl[c].pre.use_gpu
             /\ scl[c].obs.session = scl[c].pre.session
             /\ scl[c].obs.ready =>
                   scl[c].obs.tm = scl[c].obs.session /\ scl[c].obs.tg = scl[c].obs.session

\* C19 witness: get_session_info returns the state of a live session while
\* another thread, which has called create_session, waits for the lock.
C19_Witness ==
    \E c, d \in Callers :
       /\ scl[c].pc = "release" /\ scl[c].op = "get_session_info" /\ scl[c].obs.ready
       /\ scl[d].pc = "acquire" /\ scl[d].op = "create"

\* C20 (the claim as stated): no get_session caller ever has to wait for a
\* thread that is inside create_session, recreate_session_if_needed or
\* destroy_session.
C20_GetSessionNeverWaits ==
    \A c, d \in Callers :
       ~ /\ scl[c].op = "get_session" /\ scl[c].pc = "acquire"
         /\ smLock = d /\ d # c
         /\ scl[d].op \in {"create", "recreate", "destroy"}

\* The part of C20 the code keeps: get_session returns the current handle,
\* or None when there is none.
GetSessionReturnsCurrent ==
    \A c \in Callers :
       (scl[c].pc = "release" /\ scl[c].op = "get_session") =>
          scl[c].obs.session = sm.session

\* Thread c is about to return from destroy_session.
DestroyReturns(c) == scl[c].pc = "release" /\ scl[c].op = "destroy"

\* C21: destroy_session is idempotent and safe in every state: when it
\* returns there is no session (is_session_ready() is False); called with a
\* session it leaves the fields as __init__ did; called without one, whatever
\* the other fields are, it changes nothing; and it returns normally.
C21_DestroyIdempotent ==
    \A c \in Callers :
       /\ DestroyReturns(c) =>
             /\ ~SM_is_session_ready(sm)
             /\ scl[c].pre.session # 0 => sm = SMInit
             /\ scl[c].pre.session = 0 => sm = scl[c].pre
             /\ scl[c].ret = "none" /\ scl[c].raises = 0
       /\ (scl[c].op = "destroy" /\ scl[c].pc \in SmInside) =>
             scl[c].pc \in {"ds_test", "ds_session", "ds_model", "ds_gpu", "release"}

\* C21 witness: destroy_session returns for the second time in a row: a
\* session had been created, and the call found none.
C21_Witness ==
    \E c \in Callers :
       /\ DestroyReturns(c) /\ scl[c].pre = SMInit /\ nextHandle > 1
       /\ sm = SMInit

\* The job state is idle and a job has run to the end of processing_thread.
IdleAfterJob == ~PS_is_processing(ps) /\ \E t \in Threads : w[t].pc \in {"w_tail", "done"}

\* C22: however a job ends, the worker destroys the session before the job
\* state returns to idle: whenever the job state is idle after a job has run,
\* is_session_ready() is False.
C22_IdleImpliesNoSession == IdleAfterJob => ~SM_is_session_ready(sm)

\* C22 witness: a job created a session, ended, and the job state is idle.
C22_Witness == IdleAfterJob /\ nextHandle > 1 /\ env.ui = "idle"

C24_TempDirsTrackedAndPurged ==
    /\ \A t \in Threads : fs.tmp[t].exists => t \in env.registry
    /\ IdleAfterJob => \A t \in Threads : w[t].pc \in {"w_tail", "done"} => ~fs.tmp[t].exists

\* What the code keeps: a directory is put on the list when it is made, and
\* only the job that made it takes it off, in its `finally`.
RegisteredUntilJobCleanup ==
    \A t \in Threads :
       (fs.tmp[t].exists /\ w[t].pc \notin {"w_finish", "w_tail", "done", "killed"})
          => t \in env.registry

\* reassemble_video_from_frames has returned to processing_thread (line 846).
RaReturned(t) == w[t].pc = "vid_done" /\ w[t].raret # "none"

\* C25: after reassemble_video_from_frames returns, with True or with False,
\* the directory greenscreen_frames no longer exists.
C25_GreenscreenDirRemoved ==
    \A t \in Threads : RaReturned(t) => ~fs.greenDir

\* C26: reassemble_video_from_frames returns True only if every processed
\* frame it found was composited and written to the video, in that order, and
\* the job was not stopped.
C26_TrueOnlyIfComplete ==
    \A t \in Threads :
       (RaReturned(t) /\ w[t].raret = "true") =>
           /\ fs.video = w[t].rf
           /\ IPS_is_processing(ips)

\* What the code keeps: True is returned only after both loops ran to their
\* end, and every frame of the video is a composited frame that was found.
TrueOnlyAfterBothLoops ==
    \A t \in Threads :
       (RaReturned(t) /\ w[t].raret = "true") =>
           /\ w[t].cj = Len(w[t].rf) /\ w[t].wj = Len(w[t].gf)
           /\ \A a \in 1..Len(fs.video) : fs.video[a] \in Items

\* The stage of a video job, from where its thread stands: extraction (lines
\* 798-802 of main_window.py), process_directory on the frames (804-840),
\* the compositing half of reassemble_video_from_frames (video_handler.py
\* 153-193), its writing half (195-244), and the end of the video branch.
Stage(r) ==
    CASE r.mode # "video" -> "none"
      [] r.pc \in {"v_open", "v_extract", "v_extracted"} -> "Extracting"
      [] r.pc \in {"ra_entry", "ra_comp", "ra_check"} -> "Compositing"
      [] r.pc \in {"ra_write", "ra_release"} -> "Reassembling"
      [] r.pc \in {"vid_done", "w_except"} -> "Ended"
      [] OTHER -> "ProcessingFrames"

StageRank(st) ==
    CASE st = "none" -> 0
      [] st = "Extracting" -> 1
      [] st = "ProcessingFrames" -> 2
      [] st = "Compositing" -> 3
      [] st = "Reassembling" -> 4
      [] OTHER -> 5

\* What the code keeps: the stages of a video job follow one another in the
\* order Extracting, ProcessingFrames, Compositing, Reassembling, end; none
\* is entered twice.
StagesInOrder ==
    [][\A t \in Threads :
          Stage(w'[t]) # "none" => StageRank(Stage(w'[t])) >= StageRank(Stage(w[t]))]_vars

\* C27: a video job moves through its stages only in the order Extracting,
\* ProcessingFrames, Compositing, Reassembling, end, and once a stop has
\* been requested a job in a stage goes from it only to the end, never into a
\* later stage.
C27_StagesInOrderStopEnds ==
    [][\A t \in Threads :
          /\ Stage(w'[t]) # "none" => StageRank(Stage(w'[t])) >= StageRank(Stage(w[t]))
          /\ (PS_should_stop(ps) /\ Stage(w[t]) \notin {"none", "Ended"} /\ Stage(w'[t]) # "none")
                => Stage(w'[t]) \in {Stage(w[t]), "Ended"}]_vars

(***************************************************************************)
(* SpecVF: the frames of one video on their way through the stages:        *)
(* extract_video_frames numbers and names them, find_image_files hands     *)
(* them to process_directory, which names the outputs, and                 *)
(* reassemble_video_from_frames lists the outputs by name and writes them. *)
(* Rates are whole frames per second; a frame is known by the number in    *)
(* its name; file names are sequences of character codes.                  *)
(***************************************************************************)
\* config/settings.py validate_fps line 111: an empty field gives None, the
\* native rate; a rate that is not above 0 is turned down at line 115.
NoTarget == 0

NativeRates == {0, 24, 30, 60}
TargetRates == {NoTarget, 1, 7, 10, 120}

Max2(a, b) == IF a >= b THEN a ELSE b

\* A frame_skip that rounds the ratio up instead of down.
VH_frame_skip_RoundUp(video_fps, fps) ==
    IF fps = NoTarget THEN 1 ELSE Max2(1, (video_fps + fps - 1) \div fps)

\* extract_video_frames lines 96-103: frame_skip. int() cuts off the fraction
\* of the quotient, which is never negative.
VH_frame_skip(video_fps, fps) ==
    IF fps = NoTarget THEN 1 ELSE Max2(1, video_fps \div fps)

\* extract_video_frames lines 105-124: the loop, from frame_count on: the
\* result lists, for saved_count = 0, 1, ..., the source frame that was
\* written as frame_<saved_count>.
\* The frames are read in order (frame_count, frame_count + 1, ... up to the
\* end of the source) and each one whose index passes the test of line 113,
\* `frame_count % frame_skip == 0`, is written next.
VH_extract_loop(srcN, skip, frame_count, files) ==
    LET read == IF frame_count >= srcN THEN <<>>
                ELSE [i \in 1..(srcN - frame_count) |-> frame_count + i - 1]
        Saved(f) == f % skip = 0
    IN files \o SelectSeq(read, Saved)

\* The decimal digits of n, most significant first.
RECURSIVE Digits(_)
Digits(n) == IF n < 10 THEN <<n>> ELSE Digits(n \div 10) \o <<n % 10>>

\* The format `06d` (line 116): at least six digits, filled up with zeros; the
\* digits as character codes.
Format06d(n) ==
    LET d == Digits(n)
        z == IF Len(d) >= 6 THEN <<>> ELSE [i \in 1..(6 - Len(d)) |-> 0]
    IN [i \in 1..(Len(z) + Len(d)) |-> 48 + (z \o d)[i]]

\* The name of processed frame j. Line 116 names the extracted frame
\* f"frame_{saved_count:06d}.png", and core/processor.py lines 269-271 keep
\* the name for the output with "_no_bg" added to the stem: the codes of
\* "frame_", the digits, the codes of "_no_bg" and of ".png".
ProcessedName(j) ==
    <<102, 114, 97, 109, 101, 95>> \o Format06d(j)
       \o <<95, 110, 111, 95, 98, 103>> \o <<46, 112, 110, 103>>

\* The order of Python strings: by the first code that differs, a proper
\* prefix first.
RECURSIVE StrLess(_, _)
StrLess(a, b) ==
    IF b = <<>> THEN FALSE
    ELSE IF a = <<>> THEN TRUE
    ELSE IF Head(a) # Head(b) THEN Head(a) < Head(b)
    ELSE StrLess(Tail(a), Tail(b))

\* sorted(os.listdir(..)) (lines 164 and 211) for the frames D of
\* processed_frames (greenscreen_frames keeps the names, line 183): the
\* frames in the order of their file names.
RECURSIVE SortedByName(_)
SortedByName(D) ==
    IF D = {} THEN <<>>
    ELSE LET lo == CHOOSE x \in D :
                     \A y \in D \ {x} : StrLess(ProcessedName(x), ProcessedName(y))
         IN <<lo>> \o SortedByName(D \ {lo})

\* Frame numbers of a long video that the model follows through reassembly.
FrameSamples == {0, 1, 99999, 100000, 999999, 1000000}

\* extract_video_frames (lines 63-130) on a video of srcN frames.
VfExtract ==
    /\ vf.pc = "idle"
    /\ \E native \in NativeRates, target \in TargetRates, n \in 0..MaxFrames :
          LET skip == VH_frame_skip(native, target)
          IN vf' = [vf EXCEPT !.pc = "extracted", !.native = native, !.target = target,
                              !.srcN = n, !.skip = skip,
                              !.files = VH_extract_loop(n, skip, 0, <<>>)]
    /\ UNCHANGED <<xr, rd, psVars, smVars, ipVars>>

\* core/processor.py lines 221 and 264-290: process_directory takes the next
\* file that find_image_files delivered (utils/file_utils.py lines 19-29:
\* Path.rglob, in the order the directory is read, unsorted) and hands it to
\* process_single_image, which writes the output under its name.
VfHand ==
    /\ vf.pc = "extracted"
    /\ \E j \in (0..(Len(vf.files) - 1)) \ {vf.handed[a] : a \in 1..Len(vf.handed)} :
          vf' = [vf EXCEPT !.handed = Append(@, j), !.dir = @ \cup {j}]
    /\ UNCHANGED <<xr, rd, psVars, smVars, ipVars>>

\* gui/main_window.py lines 802 and 838-846: without frames the job ends;
\* after the batch the processed frames go to reassembly.
VfBatchEnd ==
    /\ vf.pc = "extracted"
    /\ Len(vf.handed) = Len(vf.files)
    /\ vf' = [vf EXCEPT !.pc = IF vf.files = <<>> THEN "end" ELSE "ra_list"]
    /\ UNCHANGED <<xr, rd, psVars, smVars, ipVars>>

\* reassemble_video_from_frames lines 162-166 and 211-225: the frames are
\* listed and sorted by name, composited under the same names, listed and
\* sorted again and written in that order.
VfReassemble ==
    /\ vf.pc = "ra_list"
    /\ vf' = [vf EXCEPT !.pc = "ra_done", !.written = SortedByName(vf.dir)]
    /\ UNCHANGED <<xr, rd, psVars, smVars, ipVars>>

\* A short video before extraction, or the processed frames of a long one (of
\* which the frames numbered in FrameSamples are followed) before reassembly.
InitVF ==
    /\ JobStateIdle
    /\ IPIdle
    /\ xr = XRInit
    /\ rd = RDInit
    /\ \/ vf = VFInit
       \/ \E D \in SUBSET FrameSamples :
             /\ Cardinality(D) \in {2, 3}
             /\ vf = [VFInit EXCEPT !.pc = "ra_list", !.dir = D]

NextVF ==
    \/ VfExtract
    \/ VfHand
    \/ VfBatchEnd
    \/ VfReassemble

SpecVF == InitVF /\ [][NextVF]_vars

\* What the code keeps of C28: the file numbered j holds source frame
\* j * frame_skip, and frames numbered below 1000000 are written in ascending
\* order.
ExtractedFrameIsSourceJS ==
    /\ \A j \in 1..Len(vf.files) : vf.files[j] = (j - 1) * vf.skip
    /\ (vf.pc = "ra_done" /\ \A x \in vf.dir : x < 1000000) =>
          \A a, b \in 1..Len(vf.written) : a < b => vf.written[a] < vf.written[b]

\* C28: for every stride and every source video, the j-th extracted frame
\* (file frame_<j>, zero-padded) is the source frame with index j * stride,
\* and reassembly writes the frames in ascending order of j.
C28_FrameOrderPreserved ==
    /\ \A j \in 1..Len(vf.files) : vf.files[j] = (j - 1) * vf.skip
    /\ vf.pc = "ra_done" =>
          /\ {vf.written[a] : a \in 1..Len(vf.written)} = vf.dir
          /\ \A a, b \in 1..Len(vf.written) : a < b => vf.written[a] < vf.written[b]

\* What the code keeps of C29: every extracted frame is handed over once.
HandedOnce ==
    /\ \A a, b \in 1..Len(vf.handed) : a # b => vf.handed[a] # vf.handed[b]
    /\ \A a \in 1..Len(vf.handed) : vf.handed[a] \in 0..(Len(vf.files) - 1)
    /\ vf.pc \in {"ra_list", "ra_done"} /\ vf.files # <<>> => Len(vf.handed) = Len(vf.files)

\* C29: in a video job the batch runner processes the extracted frames in
\* ascending order of frame index: the k-th item handed to
\* process_single_image is extracted frame k (counted from 0).
C29_ProcessedInFrameOrder ==
    \A k \in 1..Len(vf.handed) : vf.handed[k] = k - 1

\* C30: the stride is max(1, floor(native / target)) when a target rate is
\* requested and 1 otherwise, so it is at least 1; a source of N frames gives
\* ceil(N / stride) extracted frames; native rate 30, target 10 and N = 90
\* give stride 3 and 30 frames.
C30_StrideAndCount ==
    /\ vf.pc = "extracted" =>
          /\ vf.skip >= 1
          /\ vf.target = NoTarget => vf.skip = 1
          /\ vf.target # NoTarget =>
                \E q \in 0..vf.native :
                   /\ q * vf.target <= vf.native /\ vf.native < (q + 1) * vf.target
                   /\ vf.skip = Max2(1, q)
          /\ Len(vf.files) * vf.skip >= vf.srcN
          /\ Len(vf.files) > 0 => (Len(vf.files) - 1) * vf.skip < vf.srcN
    /\ LET s == VH_frame_skip(30, 10)
       IN s = 3 /\ Len(VH_extract_loop(90, s, 0, <<>>)) = 30

\* C30 witness: native rate 24 and target 10 give stride 2, and a source of 3
\* frames gives the 2 frames 0 and 2.
C30_Witness ==
    /\ vf.pc = "extracted" /\ vf.native = 24 /\ vf.target = 10
    /\ vf.skip = 2 /\ vf.srcN = 3 /\ vf.files = <<0, 2>>

\* C31: no public operation lets an exception escape to its caller: a call of
\* process_single_image ends with True or False and a call of
\* process_directory with its result dictionary, whatever failed underneath
\* (engine, filesystem, progress callback).
C31_NoExceptionEscapes ==
    w[Client].pc = "h_done" =>
       /\ w[Client].mode = "image" => w[Client].res \in {"true", "false"}
       /\ w[Client].mode = "directory" => w[Client].pdret = "value"

\* What the code keeps: process_single_image never lets an exception out.
SingleImageNeverRaises ==
    \A t \in Threads : w[t].res # "raised"

\* The item of the client's batch that a stop request interrupted: the request
\* came while process_single_image stood before one of its cancellation
\* checks, which then returned False because of it (0 if there is none).
InterruptedItem ==
    IF /\ hist.ipStop.req /\ w[Client].mode = "directory"
       /\ w[Client].stopAt \in {"psi_check1", "psi_check2", "psi_check3"}
    THEN hist.ipStop.begun ELSE 0

\* C32: cancellation is reported distinctly from failure: the item that a
\* stop request interrupted is not reported as failed in the progress events
\* (the call after a failed item, "Failed: <name>", is the one whose
\* destination is None).
C32_CancelledNotReportedFailed ==
    \A a \in 1..Len(hist.events) :
       (hist.events[a].kind = "after" /\ hist.events[a].dest = 0)
          => hist.events[a].item # InterruptedItem

\* What the code keeps: after the interrupted item the loop ends, no further
\* item is begun.
NoItemAfterInterrupted ==
    InterruptedItem # 0 =>
       \A a \in 1..Len(hist.events) : hist.events[a].item <= InterruptedItem

\* C33: a stop request has effect only while a job is running: in every
\* reachable state of the job state, should_stop() = True implies
\* is_processing() = True.
C33_StopOnlyWhileRunning == PS_should_stop(ps) => PS_is_processing(ps)

\* What the code keeps: a stop requested on an idle state is gone when the
\* next job starts, and a stop request never changes is_processing().
StaleStopClearedByStart ==
    /\ PS_is_processing(PS_stop_processing(ps)) = PS_is_processing(ps)
    /\ PS_start_processing(ps).ret => ~PS_should_stop(PS_start_processing(ps).st)

\* Thread c is about to return True from start_processing.
StartWins(c) == cl[c].op = "start" /\ cl[c].pc = "release" /\ cl[c].ret = "true"

\* C34: finish_processing clears both flags in one atomic step (nobody else
\* is inside a method between its two assignments, and both flags are False
\* when it returns), and a stop never leaks into the next job: when
\* start_processing returns True should_stop() is False, and the flag becomes
\* True only by the assignment of a stop_processing call.
C34_FinishAtomicNoStaleStop ==
    /\ [](\A c \in Callers :
            /\ (cl[c].op = "finish" /\ cl[c].pc \in {"s2", "release"}) =>
                  /\ psLock = c
                  /\ \A d \in Callers \ {c} : cl[d].pc \notin {"s1", "s2", "s3", "release"}
            /\ (cl[c].op = "finish" /\ cl[c].pc = "release") => ps = PSInit
            /\ StartWins(c) => ~PS_should_stop(ps))
    /\ [][(~PS_should_stop(ps) /\ PS_should_stop(ps'))
             => \E c \in Callers : cl[c].op = "stop" /\ cl[c].pc = "s1" /\ cl'[c].pc = "release"]_vars

\* C34 witness: start_processing is about to return True although it found
\* the stop flag set on entry (a stop requested after the last job), and the
\* flag is clear.
C34_Witness ==
    \E c \in Callers :
       StartWins(c) /\ cl[c].pre.should_stop /\ cl[c].after = "finish" /\ ~PS_should_stop(ps)

(***************************************************************************)
(* SpecXP: one extra_params text on its way through                        *)
(* ImageProcessor._parse_extra_params (core/processor.py lines 330-340)    *)
(* and the engine step of process_single_image (lines 126-155). The step   *)
(* is run twice in the same surroundings (the same session state, the same *)
(* engine): once with the given text and once with the empty text.         *)
(*                                                                         *)
(* A text is a sequence of tokens: JSON whitespace (ws), whitespace that   *)
(* str.strip() removes but JSON does not know (uws: form feed, no-break    *)
(* space), the structural characters, a string, a number, one of true,     *)
(* false and null (lit), and anything else (bad: a bare word, a quote).    *)
(***************************************************************************)
MaxText == 2

Runs == {"given", "empty"}
JsonTokens == {"ws", "uws", "{", "}", "[", "]", ":", ",", "str", "num", "lit", "bad"}

\* Longer texts: objects with options, nested values, and near misses.
LongTexts ==
    { <<"{", "str", ":", "num", "}">>,
      <<"ws", "{", "ws", "str", "ws", ":", "ws", "num", "ws", "}", "ws">>,
      <<"{", "str", ":", "num", ",", "str", ":", "lit", "}">>,
      <<"{", "str", ":", "[", "num", ",", "num", "]", "}">>,
      <<"{", "str", ":", "{", "}", "}">>,
      <<"[", "num", ",", "str", "]">>,
      <<"{", "str", ":", "num">>,
      <<"{", "str", ":", "num", ",", "}">>,
      <<"{", "bad", ":", "num", "}">>,
      <<"{", "str", ":", "bad", "}">>,
      <<"{", "str", "num", "}">>,
      <<"str", ":", "num">>,
      <<"{", "str", ":", "num", "}", "}">>,
      <<"uws", "{", "str", ":", "num", "}">>,
      <<"[", "num", ",", "]">> }

ExtraTexts ==
    UNION {[1..k -> JsonTokens] : k \in 0..MaxText} \cup LongTexts

\* The token at position i, "end" past the last one.
TokenAt(t, i) == IF i <= Len(t) THEN t[i] ELSE "end"

\* json.decoder WHITESPACE.match: the first position at or after i that
\* holds no JSON whitespace.
RECURSIVE JsonSkipWs(_, _)
JsonSkipWs(t, i) == IF TokenAt(t, i) = "ws" THEN JsonSkipWs(t, i + 1) ELSE i

JsonFail == [ok |-> FALSE, next |-> 0, kind |-> "none", n |-> 0]

\* json.scanner scan_once with JSONObject and JSONArray: the value that
\* starts at position i, the position after it, and for an object the number
\* of its members.
RECURSIVE JsonValue(_, _)
RECURSIVE JsonMembers(_, _, _)
RECURSIVE JsonElements(_, _)
JsonValue(t, i) ==
    CASE TokenAt(t, i) \in {"str", "num", "lit"} ->
            [ok |-> TRUE, next |-> i + 1, kind |-> "scalar", n |-> 0]
      [] TokenAt(t, i) = "{" ->
            LET j == JsonSkipWs(t, i + 1)
            IN IF TokenAt(t, j) = "}"
               THEN [ok |-> TRUE, next |-> j + 1, kind |-> "dict", n |-> 0]
               ELSE JsonMembers(t, j, 0)
      [] TokenAt(t, i) = "[" ->
            LET j == JsonSkipWs(t, i + 1)
            IN IF TokenAt(t, j) = "]"
               THEN [ok |-> TRUE, next |-> j + 1, kind |-> "list", n |-> 0]
               ELSE JsonElements(t, j)
      [] OTHER -> JsonFail

JsonMembers(t, i, n) ==
    IF TokenAt(t, i) # "str" THEN JsonFail
    ELSE LET c == JsonSkipWs(t, i + 1)
         IN IF TokenAt(t, c) # ":" THEN JsonFail
            ELSE LET v == JsonValue(t, JsonSkipWs(t, c + 1))
                 IN IF ~v.ok THEN JsonFail
                    ELSE LET e == JsonSkipWs(t, v.next)
                         IN CASE TokenAt(t, e) = "}" ->
                                    [ok |-> TRUE, next |-> e + 1, kind |-> "dict", n |-> n + 1]
                              [] TokenAt(t, e) = "," ->
                                    JsonMembers(t, JsonSkipWs(t, e + 1), n + 1)
                              [] OTHER -> JsonFail

JsonElements(t, i) ==
    LET v == JsonValue(t, i)
    IN IF ~v.ok THEN JsonFail
       ELSE LET e == JsonSkipWs(t, v.next)
            IN CASE TokenAt(t, e) = "]" ->
                       [ok |-> TRUE, next |-> e + 1, kind |-> "list", n |-> 0]
                 [] TokenAt(t, e) = "," -> JsonElements(t, JsonSkipWs(t, e + 1))
                 [] OTHER -> JsonFail

\* json.loads: one value with whitespace around it and nothing after it, or
\* JSONDecodeError.
Json_loads(t) ==
    LET v == JsonValue(t, JsonSkipWs(t, 1))
    IN IF v.ok /\ JsonSkipWs(t, v.next) = Len(t) + 1
       THEN [kind |-> v.kind, n |-> v.n]
       ELSE [kind |-> "JSONDecodeError", n |-> 0]

\* `not extra_params.strip()` (line 332).
Blank(t) == \A i \in 1..Len(t) : t[i] \in {"ws", "uws"}

EmptyDict == [kind |-> "dict", n |-> 0]

\* A parser that lets the decoder's error out.
IP_parse_extra_params_Strict(t) == IF Blank(t) THEN EmptyDict ELSE Json_loads(t)

\* _parse_extra_params (lines 330-340).
IP_parse_extra_params(t) ==
    IF Blank(t) THEN EmptyDict
    ELSE IF Json_loads(t).kind = "JSONDecodeError" THEN EmptyDict ELSE Json_loads(t)

TextOf(r) == IF r = "given" THEN xr.text ELSE <<>>

\* Lines 126-127. An exception from the parser would be caught at line 195.
XpParse(r) ==
    /\ xr.run[r].pc = "parse"
    /\ LET a == IP_parse_extra_params(TextOf(r))
       IN xr' = IF a.kind = "JSONDecodeError"
                THEN [xr EXCEPT !.run[r].pc = "done", !.run[r].ret = "false"]
                ELSE [xr EXCEPT !.run[r].pc = "ready", !.run[r].args = a]
    /\ UNCHANGED <<rd, vf, psVars, smVars, ipVars>>

\* Lines 129-133: the readiness test.
XpReady(r) ==
    /\ xr.run[r].pc = "ready"
    /\ xr' = IF xr.ready THEN [xr EXCEPT !.run[r].pc = "remove"]
             ELSE [xr EXCEPT !.run[r].pc = "done", !.run[r].ret = "false"]
    /\ UNCHANGED <<rd, vf, psVars, smVars, ipVars>>

\* Lines 144-155: `remove(..., **extra_args)`. Anything but a mapping after
\* `**` is a TypeError before the engine is entered; the engine's outcome
\* depends on whether it is given options. Past the engine the call goes on
\* to line 157.
XpRemove(r) ==
    /\ xr.run[r].pc = "remove"
    /\ LET how == IF xr.run[r].args.n = 0 THEN "plain" ELSE "options"
       IN xr' = IF xr.run[r].args.kind # "dict"
                THEN [xr EXCEPT !.run[r].pc = "done", !.run[r].ret = "false"]
                ELSE [xr EXCEPT !.run[r].pc = "done", !.run[r].invoked = how,
                                !.run[r].ret = IF xr.eng[how] = "ok" THEN "continues"
                                               ELSE "false"]
    /\ UNCHANGED <<rd, vf, psVars, smVars, ipVars>>

InitXP ==
    /\ JobStateIdle
    /\ IPIdle
    /\ vf = VFInit
    /\ rd = RDInit
    /\ \E t \in ExtraTexts, ready \in BOOLEAN, eng \in [{"plain", "options"} -> {"ok", "raise"}] :
          xr = [XRInit EXCEPT !.text = t, !.ready = ready, !.eng = eng,
                              !.run = [r \in Runs |-> [XRInit.run[r] EXCEPT !.pc = "parse"]]]

NextXP ==
    \/ \E r \in Runs : XpParse(r)
    \/ \E r \in Runs : XpReady(r)
    \/ \E r \in Runs : XpRemove(r)

SpecXP == InitXP /\ [][NextXP]_vars

\* The text is not blank and is not a JSON document.
Malformed(t) == ~Blank(t) /\ Json_loads(t).kind = "JSONDecodeError"

\* C35: for a malformed or blank extra_params text the parser yields no
\* options, the engine is invoked with no extra options (if it is invoked at
\* all), and the call ends as the same call with empty extra_params ends.
C35_MalformedExtraIsEmpty ==
    (Blank(xr.text) \/ Malformed(xr.text)) =>
       /\ xr.run["given"].pc \in {"ready", "remove"} => xr.run["given"].args = EmptyDict
       /\ xr.run["given"].invoked \in {"no", "plain"}
       /\ (xr.run["given"].pc = "done" /\ xr.run["empty"].pc = "done") =>
             /\ xr.run["given"].ret = xr.run["empty"].ret
             /\ xr.run["given"].ret # "none"
             /\ xr.run["given"].invoked = xr.run["empty"].invoked

\* C35 witness: a malformed text (an object whose key is not a JSON string)
\* went through; the engine was invoked without options and the call went on.
C35_Witness ==
    /\ xr.text = <<"{", "bad", ":", "num", "}">>
    /\ xr.run["given"].pc = "done" /\ xr.run["empty"].pc = "done"
    /\ xr.run["given"].invoked = "plain"
    /\ xr.run["given"].ret = "continues"

\* Well-formed texts are passed on as they parse: an object's members reach
\* the engine, and a document that is no object ends the call with False.
WellFormedPassedOn ==
    (xr.run["given"].pc = "done" /\ ~Blank(xr.text) /\ ~Malformed(xr.text)) =>
       /\ Json_loads(xr.text).kind # "dict" =>
             (xr.run["given"].ret = "false" /\ xr.run["given"].invoked = "no")
       /\ (Json_loads(xr.text).kind = "dict" /\ Json_loads(xr.text).n > 0 /\ xr.ready) =>
             xr.run["given"].invoked = "options"

\* Thread c is about to return from recreate_session_if_needed(m, True), and
\* the call that returned last before it entered was a
\* recreate_session_if_needed(m, True) that returned True.
RepeatsGpuRecreate(c) ==
    /\ scl[c].pc = "release" /\ scl[c].op = "recreate" /\ scl[c].use_gpu
    /\ smTag.last = scl[c].model

\* C36 (the claim as stated): a recreate_session_if_needed(m, True) that
\* immediately follows one that returned True returns True, calls new_session
\* not at all and leaves the handle as it was.
C36_RepeatedGpuConfigureIsNoOp ==
    \A c \in Callers :
       RepeatsGpuRecreate(c) =>
          /\ scl[c].ret = "true"
          /\ scl[c].calls = <<>>
          /\ sm.session = scl[c].pre.session

\* The part of C36 the code keeps: the repeat is a no-op when the first call
\* left the GPU flag set, that is when the session it made is a GPU session.
RepeatAfterGpuSessionIsNoOp ==
    \A c \in Callers :
       (RepeatsGpuRecreate(c) /\ scl[c].pre.use_gpu) =>
          scl[c].ret = "true" /\ scl[c].calls = <<>> /\ sm = scl[c].pre

\* Thread c is about to return the dictionary of get_session_info.
InfoReturns(c) == scl[c].pc = "release" /\ scl[c].op = "get_session_info"

\* C37 (the claim as stated): in the status get_session_info returns, ready is
\* True exactly if model is not null, and use_gpu is True only if ready is.
C37_SessionInfoConsistent ==
    \A c \in Callers :
       InfoReturns(c) =>
          /\ scl[c].obs.ready <=> scl[c].obs.model # "none"
          /\ scl[c].obs.use_gpu => scl[c].obs.ready

\* The part of C37 the code keeps: a status that says ready names a model, and
\* the status is one the fields had together (it is read under the lock).
ReadyInfoNamesModel ==
    \A c \in Callers :
       InfoReturns(c) =>
          /\ scl[c].obs.ready => scl[c].obs.model # "none"
          /\ scl[c].obs.ready = (sm.session # 0)
          /\ scl[c].obs.model = sm.model /\ scl[c].obs.use_gpu = sm.use_gpu

\* The frames job t produced: the outputs process_directory reported to it
\* (the processed_frames of its result).
ProducedBy(t) == {w[t].frames[a] : a \in 1..Len(w[t].frames)}

\* C38 (the claim as stated): the video a job reassembles holds only frames
\* the job produced: every whole file its compositing loop has taken up and
\* every frame it writes to the output video is one of its own processed
\* frames.
C38_OnlyOwnFramesReassembled ==
    \A t \in Threads :
       /\ w[t].pc \in {"ra_comp", "ra_check"} =>
             \A a \in 1..w[t].cj :
                fs.proc[w[t].rf[a]] \in {"new", "old"} => w[t].rf[a] \in ProducedBy(t)
       /\ w[t].pc \in {"ra_write", "ra_release"} =>
             \A a \in 1..Len(fs.video) : fs.video[a] \in ProducedBy(t)

\* The part of C38 the code keeps: the frames a job produced are among those
\* it lists, and the first video job on an output path writes only its own.
OwnFramesListed ==
    \A t \in Threads :
       /\ w[t].pc = "ra_comp" =>
             \A k \in ProducedBy(t) : \E a \in 1..Len(w[t].rf) : w[t].rf[a] = k
       /\ (w[t].pc \in {"ra_write", "ra_release"}
           /\ \A u \in Threads \ {t} : w[u].pc = "unborn") =>
             \A a \in 1..Len(fs.video) : fs.video[a] \in ProducedBy(t)

\* The worker of video job t still has a frame to write into its temporary
\* directory (the extraction loop has not reached the end of the source) or a
\* frame to read from it (process_directory has taken up an item that
\* process_single_image has not read yet).
UsesTempDir(t) ==
    /\ w[t].mode = "video"
    /\ \/ w[t].pc = "v_extract" /\ w[t].fcount < w[t].srcN
       \/ w[t].pc \in {"pd_before", "psi_entry", "psi_check1", "psi_mem", "psi_read"}

\* C39 (the claim as stated): a job's temporary frame directory is removed
\* only when its worker has finished using it: no step removes the directory
\* while the worker extracts into it or processes frames from it (the state
\* after such a step has the worker at work on a directory that is gone).
C39_TempDirOutlivesUse ==
    [][\A t \in Threads :
          (UsesTempDir(t) /\ fs.tmp[t].exists /\ w'[t] = w[t]) => fs'.tmp[t].exists]_vars

\* The part of C39 the code keeps: as long as the window is open, the
\* directory is there while its worker uses it.
TempDirKeptWhileWindowOpen ==
    env.ui = "idle" => \A t \in Threads : UsesTempDir(t) => fs.tmp[t].exists

(***************************************************************************)
(* SpecRD: one call of utils/file_utils.py safe_remove_directory (lines    *)
(* 93-123), statement by statement.                                        *)
(*   max_retries  the argument (3 by default)                              *)
(*   attempt      the loop variable                                        *)
(*   exists       whether the directory is there                           *)
(*   left         the entries still in it (a failing rmtree may have       *)
(*                removed some)                                            *)
(*   calls        history: the rmtree calls made                           *)
(***************************************************************************)
MaxRetries == 3
MaxEntries == 3

\* Lines 104-105: a directory that is not there counts as removed.
RdTest ==
    /\ rd.pc = "test"
    /\ rd' = IF rd.exists THEN [rd EXCEPT !.pc = "loop"]
             ELSE [rd EXCEPT !.ret = "true", !.pc = "done"]
    /\ UNCHANGED <<xr, vf, psVars, smVars, ipVars>>

\* Line 107 and line 123: `for attempt in range(max_retries)`, and the
\* `return False` after a loop that made no turn.
RdLoop ==
    /\ rd.pc = "loop"
    /\ rd' = IF rd.attempt < rd.max_retries THEN [rd EXCEPT !.pc = "try"]
             ELSE [rd EXCEPT !.ret = "false", !.pc = "done"]
    /\ UNCHANGED <<xr, vf, psVars, smVars, ipVars>>

\* Lines 108-114: shutil.rmtree(directory, ignore_errors=False): the directory
\* is removed and True returned, or PermissionError/OSError is raised with
\* some of the entries possibly removed (a directory that has vanished raises
\* FileNotFoundError); then the next turn after a pause, or, in the last
\* turn, the last resort.
RdTry ==
    /\ rd.pc = "try"
    /\ \E ok \in (IF rd.exists THEN BOOLEAN ELSE {FALSE}), l \in 0..rd.left :
          rd' = IF ok
                THEN [rd EXCEPT !.exists = FALSE, !.left = 0, !.calls = @ + 1,
                                !.ret = "true", !.pc = "done"]
                ELSE IF rd.attempt < rd.max_retries - 1
                     THEN [rd EXCEPT !.left = l, !.calls = @ + 1, !.attempt = @ + 1,
                                     !.pc = "loop"]
                     ELSE [rd EXCEPT !.left = l, !.calls = @ + 1, !.pc = "final"]
    /\ UNCHANGED <<xr, vf, psVars, smVars, ipVars>>

\* Lines 116-121: shutil.rmtree(directory, ignore_errors=True) removes what it
\* can and reports nothing; `return True` follows whatever is left. An
\* exception all the same gives `return False`.
RdFinal ==
    /\ rd.pc = "final"
    /\ \E o \in (IF rd.exists THEN {"removed", "remains", "raise"} ELSE {"removed", "raise"}),
          l \in 0..rd.left :
          rd' = CASE o = "removed" -> [rd EXCEPT !.exists = FALSE, !.left = 0, !.calls = @ + 1,
                                                 !.ret = "true", !.pc = "done"]
                  [] o = "remains" -> [rd EXCEPT !.left = l, !.calls = @ + 1,
                                                 !.ret = "true", !.pc = "done"]
                  [] OTHER -> [rd EXCEPT !.left = l, !.calls = @ + 1,
                                         !.ret = "false", !.pc = "done"]
    /\ UNCHANGED <<xr, vf, psVars, smVars, ipVars>>

\* Another caller removes the same directory meanwhile: the worker's cleanup
\* (gui/main_window.py lines 865-868) and the window close (lines 935-937) both
\* call safe_remove_directory on a job's directory.
RdOther ==
    /\ rd.pc \in {"loop", "try", "final"}
    /\ rd.exists
    /\ rd' = [rd EXCEPT !.exists = FALSE, !.left = 0]
    /\ UNCHANGED <<xr, vf, psVars, smVars, ipVars>>

InitRD ==
    /\ JobStateIdle
    /\ IPIdle
    /\ vf = VFInit
    /\ xr = XRInit
    /\ \E m \in 0..MaxRetries, e \in BOOLEAN, l \in 0..MaxEntries :
          rd = [RDInit EXCEPT !.pc = "test", !.max_retries = m, !.exists = e,
                              !.left = IF e THEN l ELSE 0]

NextRD ==
    \/ RdTest
    \/ RdLoop
    \/ RdTry
    \/ RdFinal
    \/ RdOther

SpecRD == InitRD /\ [][NextRD]_vars

\* C40 (the claim as stated): safe_remove_directory makes at most max_retries
\* attempts and one last best-effort attempt, and returns True only if the
\* directory no longer exists when it returns.
C40_RemovalReportedTruthfully ==
    /\ rd.calls <= rd.max_retries + 1
    /\ (rd.pc = "done" /\ rd.ret = "true") => ~rd.exists

\* The part of C40 the code keeps: the attempts are bounded, the last resort
\* comes only after max_retries failures, and a True from one of the
\* max_retries attempts (or for a directory that was not there) is true.
TrueBeforeLastResortIsTrue ==
    /\ rd.calls <= rd.max_retries + 1
    /\ rd.pc = "final" => rd.calls = rd.max_retries
    /\ (rd.pc = "done" /\ rd.ret = "true" /\ rd.calls <= rd.max_retries) => ~rd.exists
    /\ (rd.pc = "done" /\ rd.ret = "false") =>
          (rd.max_retries = 0 \/ rd.calls = rd.max_retries + 1)
====
